---------------------------- MODULE Spec2Model ----------------------------
(***************************************************************************)
(* Verification model of tiosatria/bigdata.                                *)
(*                                                                         *)
(*  - the buffered JSON export writer (bigdata/pipelines.py,               *)
(*    JSONExportPipeline): producers, the background flusher thread and    *)
(*    the shutdown path, interleaved statement block by statement block;   *)
(*  - the request resilience layer (bigdata/middlewares.py and the         *)
(*    errback of bigdata/spiders/article.py);                              *)
(*  - the offline deduplication stage (post_process/group_dedupe.py).      *)
(*                                                                         *)
(* Each subsystem has its own specification (SpecWriter, SpecRetry,        *)
(* SpecDedup); the variables of the other subsystems stay at their         *)
(* initial value.                                                          *)
(***************************************************************************)
EXTENDS Integers, Sequences, FiniteSets, TLC

VARIABLES
    \* ---- JSONExportPipeline (pipelines.py) ----
    buffers,        \* self.buffers: domain -> list of serialized lines
    buffer_sizes,   \* self.buffer_sizes: domain -> bytes buffered
    last_flush,     \* self.last_flush: domain -> time of the last drain
    known,          \* insertion order of the keys of buffers / last_flush
    file_handlers,  \* self.file_handlers: "absent" | "open" | "closed"
    flush_queue,    \* self.flush_queue
    running,        \* self.running
    item_count,     \* self.item_count
    lock,           \* owner of self.lock: "free" | "close"
    files,          \* the lines of <domain>.jsonl on disk
    now,            \* time.time()
    flusher,        \* the background flusher thread: its position and locals
    closer,         \* the thread running close_spider: position and locals
    submitted,      \* history: the records accepted per domain, in order
    io_failed,      \* history: the file system has failed a write
    last_restore,   \* history: the last run of the except block of _flush_buffer
    swallowed,      \* history: a flush failure ended in a handler that only logs
    surfaced,       \* history: a flush failure was raised to the writer's caller
    \* ---- one logical request in the resilience layer (middlewares.py) ----
    req,            \* the Request object: priority and meta
    page,           \* what the site serves for it: initial priority, extractable
    rpc,            \* "idle" | "scheduled" | "inflight" | "finished"
    responses,      \* history: the responses and exceptions of the attempts
    sched,          \* history: the priority of every scheduling of the request
    delays,         \* history: the download_delay set by each retry
    requeue,        \* the re-queue channel: priorities of the pushes, in order
    gave_up,        \* history: times _retry took its give-up branch
    yielded,        \* number of items yielded by the spider callback
    \* ---- one run of the deduplication stage (group_dedupe.py) ----
    input,              \* the url field of the records of the input file
    chunk_size,         \* self.chunk_size
    group_by_domain,    \* self.group_by_domain
    chunks,             \* the result of read_chunks: lists of record numbers
    pending,            \* the futures that have not completed yet
    global_seen_urls,   \* global_seen_urls of dedupe_and_group
    all_unique_records, \* all_unique_records (single-file mode)
    all_domain_records, \* all_domain_records (grouped mode)
    output,             \* the files written: name -> record numbers
    dpc,                \* "idle" | "start" | "merging" | "done"
    \* ---- the file handles of the writer over many sites (pipelines.py) ----
    hl_last_flush,      \* self.last_flush: site -> time, in insertion order
    hl_file_handlers,   \* the keys of self.file_handlers (open handles)
    hl_now,             \* time.time()
    hl_closed,          \* history: the handles the last flush closed
    \* ---- RotatingJSONExportPipeline, one site (pipelines.py) ----
    rt_buffer_sizes,    \* self.buffer_sizes[domain]: bytes buffered
    rt_file_sizes,      \* self.file_sizes[domain], -1 while the key is absent
    rt_file_indices,    \* self.file_indices[domain]
    rt_file_handlers,   \* the file the open handle writes to, -1 if none
    rt_files,           \* file (by part index, 0 = no suffix) -> bytes written
    rt_pc,              \* "idle" | "flushed" (between lines 474 and 477)
    \* ---- the at-exit handler of the writer (pipelines.py) ----
    cleanup,            \* _emergency_cleanup: its position and locals
    \* ---- DownloadDelayMiddleware (middlewares.py) ----
    pace_last_request_time, \* self.last_request_time: netloc -> time, -1 if absent
    pace_now,           \* time.time()
    pace_dispatched,    \* history: the requests process_request has let through
    \* ---- ArticleSpider._get_proxy (spiders/article.py) ----
    proxy_config,       \* site -> [proxy_list, rotation_strategy] of its configuration
    proxy_index,        \* self.proxy_index: site -> index, -1 if absent
    proxy_returned,     \* history: [site, proxy] of every call, in order
    \* ---- ArticleSpider.parse_item (spiders/article.py) ----
    ex_config,          \* DomainConfigRegistry.get(domain): the site's configuration, if any
    ex_page,            \* the response, as far as the xpaths of the configuration see it
    ex_out,             \* what parse_item did: the items yielded, the strategies run
    ex_pc,              \* "idle" | "start" | "done"
    \* ---- GenericAutoParser (parsers/generic_auto.py) ----
    hz_url,             \* response.url, as its path segments
    hz_title,           \* what _extract_title finds in the response
    hz_doc,             \* the parsed tree of the response: node -> [tag, parent, text]
    hz_runs,            \* history: the result of every run of _extract_body_html
    hz_out,             \* what parse_item did: admitted, the items yielded
    hz_pc,              \* "idle" | "start" | "done"
    \* ---- A second run of group_dedupe.py on the same input file, in single-file mode ----
    sf_chunk_size,      \* self.chunk_size of the second run
    sf_chunks,          \* read_chunks() of the second run
    sf_pending,         \* the futures of the second run not yet completed
    sf_seen,            \* global_seen_urls of the second run
    sf_unique,          \* all_unique_records of the second run
    sf_output,          \* the file the second run writes
    sf_pc,              \* "idle" | "start" | "merging" | "done"
    \* ---- The seed set of the deduplication stage (_load_external_urls) ----
    external_urls,      \* the URLs _load_external_urls returned at the start of the run
    \* ---- Site identifier derivation, in the crawler and in the deduplication stage ----
    sid_hosts,          \* two network locations, each [labels, suffix]
    sid_crawler,        \* the identifiers the crawler derives for them, <<>> before
    sid_dedup,          \* the identifiers extract_domain derives for them, <<>> before
    \* ---- The output files of JSONExportPipeline by site identifier ----
    sz_sites,           \* the source_domain of the records of two sites
    sz_written,         \* history: [file, site] of every batch written, in order
    \* ---- Pagination depth tracking of ArticleSpider ----
    pg_max_pages,       \* config.max_pages of the site
    pagination_depth,   \* self.pagination_depth, by depth_key
    pg_requests,        \* history: [url, outcome] of every call of process_pagination_request
    \* ---- The post-processor (post_process/processor.py) ----
    pp_input,           \* the records loaded, in the order of the input file
    pp_config,          \* config: the html cleaner requested or not
    pp_chunks,          \* all_chunks, as lists of positions in pp_input
    pp_pending,         \* the futures not yet completed
    pp_results,         \* history: what each completed chunk returned, or that it raised
    pp_written,         \* written
    pp_failed_count,    \* failed_count
    pp_pc               \* "idle" | "start" | "processing" | "done"

writerVars == <<buffers, buffer_sizes, last_flush, known, file_handlers,
                flush_queue, running, item_count, lock, files, now, flusher,
                closer, submitted, io_failed, last_restore, swallowed,
                surfaced>>

retryVars == <<req, page, rpc, responses, sched, delays, requeue, gave_up,
               yielded>>

dedupVars == <<input, chunk_size, group_by_domain, chunks, pending,
               global_seen_urls, all_unique_records, all_domain_records,
               output, dpc>>

handleVars == <<hl_last_flush, hl_file_handlers, hl_now, hl_closed>>

rotateVars == <<rt_buffer_sizes, rt_file_sizes, rt_file_indices, rt_file_handlers, rt_files, rt_pc>>

emergVars == <<cleanup>>

paceVars == <<pace_last_request_time, pace_now, pace_dispatched>>

proxyVars == <<proxy_config, proxy_index, proxy_returned>>

extractVars == <<ex_config, ex_page, ex_out, ex_pc>>

heurVars == <<hz_url, hz_title, hz_doc, hz_runs, hz_out, hz_pc>>

pairVars == <<sf_chunk_size, sf_chunks, sf_pending, sf_seen, sf_unique, sf_output, sf_pc>>

seedVars == <<external_urls>>

siteVars == <<sid_hosts, sid_crawler, sid_dedup>>

sanVars == <<sz_sites, sz_written>>

pagVars == <<pg_max_pages, pagination_depth, pg_requests>>

ppVars == <<pp_input, pp_config, pp_chunks, pp_pending, pp_results, pp_written, pp_failed_count, pp_pc>>

vars == <<writerVars, retryVars, dedupVars, handleVars, rotateVars, emergVars, paceVars, proxyVars, extractVars, heurVars, pairVars, seedVars, siteVars, sanVars, pagVars, ppVars>>

\* What an action of one subsystem leaves alone: the other subsystems.
WriterFrame == UNCHANGED <<retryVars, dedupVars, handleVars, rotateVars, emergVars, paceVars, proxyVars, extractVars, heurVars, pairVars, seedVars, siteVars, sanVars, pagVars, ppVars>>
RetryFrame == UNCHANGED <<writerVars, dedupVars, handleVars, rotateVars, emergVars, paceVars, proxyVars, extractVars, heurVars, pairVars, seedVars, siteVars, sanVars, pagVars, ppVars>>
DedupFrame == UNCHANGED <<writerVars, retryVars, handleVars, rotateVars, emergVars, paceVars, proxyVars, extractVars, heurVars, pairVars, seedVars, siteVars, sanVars, pagVars, ppVars>>
HandleFrame == UNCHANGED <<writerVars, retryVars, dedupVars, rotateVars, emergVars, paceVars, proxyVars, extractVars, heurVars, pairVars, seedVars, siteVars, sanVars, pagVars, ppVars>>
RotateFrame == UNCHANGED <<writerVars, retryVars, dedupVars, handleVars, emergVars, paceVars, proxyVars, extractVars, heurVars, pairVars, seedVars, siteVars, sanVars, pagVars, ppVars>>
EmergencyFrame == UNCHANGED <<retryVars, dedupVars, handleVars, rotateVars, paceVars, proxyVars, extractVars, heurVars, pairVars, seedVars, siteVars, sanVars, pagVars, ppVars>>
PaceFrame == UNCHANGED <<writerVars, retryVars, dedupVars, handleVars, rotateVars, emergVars, proxyVars, extractVars, heurVars, pairVars, seedVars, siteVars, sanVars, pagVars, ppVars>>
ProxyFrame == UNCHANGED <<writerVars, retryVars, dedupVars, handleVars, rotateVars, emergVars, paceVars, extractVars, heurVars, pairVars, seedVars, siteVars, sanVars, pagVars, ppVars>>
ExtractFrame == UNCHANGED <<writerVars, retryVars, dedupVars, handleVars, rotateVars, emergVars, paceVars, proxyVars, heurVars, pairVars, seedVars, siteVars, sanVars, pagVars, ppVars>>
HeurFrame == UNCHANGED <<writerVars, retryVars, dedupVars, handleVars, rotateVars, emergVars, paceVars, proxyVars, extractVars, pairVars, seedVars, siteVars, sanVars, pagVars, ppVars>>
PairFrame == UNCHANGED <<writerVars, retryVars, dedupVars, handleVars, rotateVars, emergVars, paceVars, proxyVars, extractVars, heurVars, seedVars, siteVars, sanVars, pagVars, ppVars>>
SeedFrame == UNCHANGED <<writerVars, retryVars, dedupVars, handleVars, rotateVars, emergVars, paceVars, proxyVars, extractVars, heurVars, pairVars, siteVars, sanVars, pagVars, ppVars>>
SiteFrame == UNCHANGED <<writerVars, retryVars, dedupVars, handleVars, rotateVars, emergVars, paceVars, proxyVars, extractVars, heurVars, pairVars, seedVars, sanVars, pagVars, ppVars>>
SanFrame == UNCHANGED <<writerVars, retryVars, dedupVars, handleVars, rotateVars, emergVars, paceVars, proxyVars, extractVars, heurVars, pairVars, seedVars, siteVars, pagVars, ppVars>>
PagFrame == UNCHANGED <<writerVars, retryVars, dedupVars, handleVars, rotateVars, emergVars, paceVars, proxyVars, extractVars, heurVars, pairVars, seedVars, siteVars, sanVars, ppVars>>
PpFrame == UNCHANGED <<writerVars, retryVars, dedupVars, handleVars, rotateVars, emergVars, paceVars, proxyVars, extractVars, heurVars, pairVars, seedVars, siteVars, sanVars, pagVars>>

---------------------------------------------------------------------------
(* Bounds of the writer model *)

Domains == {"a.com", "b.com"}

\* Number of records submitted in a run.
MaxRecords == 3
\* Serialized line lengths are 1..MaxLineSize.
MaxLineSize == 2
\* Clock values are 0..MaxTime.
MaxTime == 2
\* buffer_size given to the constructor (10000 by default), scaled down.
BufferSize == 2
\* flush_interval given to the constructor (60 by default), scaled down.
FlushInterval == 2
\* The 10 MB limit of process_item, scaled down to line-size units.
LargeLimit == 1

Range(s) == {s[i] : i \in 1..Len(s)}

---------------------------------------------------------------------------
(* JSONExportPipeline *)

\* __init__: empty buffers, no handlers, no thread, running = False.
WriterInit ==
    /\ buffers = [d \in Domains |-> <<>>]
    /\ buffer_sizes = [d \in Domains |-> 0]
    /\ last_flush = [d \in Domains |-> -1]
    /\ known = <<>>
    /\ file_handlers = [d \in Domains |-> "absent"]
    /\ flush_queue = <<>>
    /\ running = FALSE
    /\ item_count = 0
    /\ lock = "free"
    /\ files = [d \in Domains |-> <<>>]
    /\ now = 0
    /\ flusher = [pc |-> "unstarted", mode |-> "queue", todo |-> <<>>,
                  domain |-> "", items |-> <<>>, bytes |-> 0]
    /\ closer = [pc |-> "idle", todo |-> <<>>]
    /\ submitted = [d \in Domains |-> <<>>]
    /\ io_failed = FALSE
    /\ last_restore = [domain |-> "", items |-> <<>>, found |-> <<>>]
    /\ swallowed = FALSE
    /\ surfaced = FALSE
    /\ cleanup = [pc |-> "idle", todo |-> <<>>]

\* open_spider: running = True and the flusher thread is started.
open_spider ==
    /\ flusher.pc = "unstarted"
    /\ closer.pc = "idle"
    /\ running' = TRUE
    /\ flusher' = [flusher EXCEPT !.pc = "loop"]
    /\ WriterFrame
    /\ UNCHANGED <<buffers, buffer_sizes, last_flush, known, file_handlers,
                   flush_queue, item_count, lock, files, now, closer,
                   submitted, io_failed, last_restore, swallowed, surfaced>>

\* time.time() advances.
Tick ==
    /\ now < MaxTime
    /\ now' = now + 1
    /\ WriterFrame
    /\ UNCHANGED <<buffers, buffer_sizes, last_flush, known, file_handlers,
                   flush_queue, running, item_count, lock, files, flusher,
                   closer, submitted, io_failed, last_restore, swallowed, surfaced>>

\* time.time() advances beyond MaxTime: the clock value is kept and the
\* recorded flush times are moved back instead; a time older than
\* FlushInterval stays that old.  Only differences now - last_flush are
\* ever read.
TickLate ==
    /\ now = MaxTime
    /\ last_flush' = [d \in Domains |->
                        IF last_flush[d] = -1 THEN -1
                        ELSE IF last_flush[d] - 1 < now - FlushInterval
                        THEN last_flush[d]
                        ELSE last_flush[d] - 1]
    /\ WriterFrame
    /\ UNCHANGED <<buffers, buffer_sizes, known, file_handlers, flush_queue,
                   running, item_count, lock, files, now, flusher, closer,
                   submitted, io_failed, last_restore, swallowed, surfaced>>

\* self.last_flush[domain] of a defaultdict(lambda: time.time()).
LastFlushOf(d) == IF last_flush[d] = -1 THEN now ELSE last_flush[d]

\* A flush condition that leaves the byte size of the buffer out.
NeedsFlushWithoutBytes(count, bytes, last) ==
    \/ count >= BufferSize
    \/ (now - last) >= FlushInterval

\* The flush condition of process_item, evaluated after the append.
NeedsFlush(count, bytes, last) ==
    \/ count >= BufferSize
    \/ bytes > LargeLimit
    \/ (now - last) >= FlushInterval

\* process_item: the "with self.lock" block (the serialization before it
\* touches no shared state).  Scrapy submits items only while the spider
\* is open, that is before close_spider is called and before the
\* interpreter runs its exit handlers.
process_item(d, size) ==
    /\ flusher.pc # "unstarted"
    /\ closer.pc = "idle"
    /\ cleanup.pc = "idle"
    /\ lock = "free"
    /\ item_count < MaxRecords
    /\ LET line == [id |-> item_count + 1, size |-> size]
           buf == Append(buffers[d], line)
           bytes == buffer_sizes[d] + size
       IN /\ buffers' = [buffers EXCEPT ![d] = buf]
          /\ buffer_sizes' = [buffer_sizes EXCEPT ![d] = bytes]
          /\ item_count' = item_count + 1
          /\ known' = IF d \in Range(known) THEN known ELSE Append(known, d)
          /\ last_flush' = [last_flush EXCEPT ![d] = LastFlushOf(d)]
          /\ flush_queue' = IF NeedsFlush(Len(buf), bytes, LastFlushOf(d))
                            THEN Append(flush_queue, d) ELSE flush_queue
          /\ submitted' = [submitted EXCEPT ![d] = Append(@, line)]
    /\ WriterFrame
    /\ UNCHANGED <<file_handlers, running, lock, files, now, flusher, closer,
                   io_failed, last_restore, swallowed, surfaced>>


\* ---- _flush_buffer, as run by the background flusher ----

\* A drain that forgets the byte count of the batch it takes; C37 must
\* tell it from the code.
DrainedWithoutBytes(d) == [domain |-> d, items |-> buffers[d], bytes |-> 0]

\* The first "with self.lock" block: return on an empty buffer, else take
\* ownership of the buffer contents.
Drained(d) == [domain |-> d, items |-> buffers[d], bytes |-> buffer_sizes[d]]

\* A variant of the except block that puts the drained items behind the
\* buffer; C4 must tell it from the code.
RestoredBufferAtBack(items, d) == buffers[d] \o items

\* The except block of _flush_buffer: the drained items go back in front of
\* whatever the buffer holds by now.
RestoredBuffer(items, d) == items \o buffers[d]

\* What the flusher does once _flush_buffer has returned normally: back to
\* the loop head, or on to the next domain of _check_time_based_flushes.
FlusherAdvance(f) ==
    IF f.mode = "time" /\ f.todo # <<>>
    THEN [f EXCEPT !.pc = "drain", !.domain = Head(f.todo), !.todo = Tail(f.todo),
                   !.items = <<>>, !.bytes = 0]
    ELSE [f EXCEPT !.pc = "loop", !.mode = "queue", !.todo = <<>>,
                   !.domain = "", !.items = <<>>, !.bytes = 0]

\* _background_flusher: "while self.running" is false, the thread ends.
flusher_exit ==
    /\ flusher.pc = "loop"
    /\ ~running
    /\ flusher' = [flusher EXCEPT !.pc = "stopped"]
    /\ WriterFrame
    /\ UNCHANGED <<buffers, buffer_sizes, last_flush, known, file_handlers,
                   flush_queue, running, item_count, lock, files, now, closer,
                   submitted, io_failed, last_restore, swallowed, surfaced>>

\* _background_flusher: flush_queue.get(timeout=1.0) returns a domain.
flusher_get ==
    /\ flusher.pc = "loop"
    /\ running
    /\ flush_queue # <<>>
    /\ flusher' = [flusher EXCEPT !.pc = "drain", !.mode = "queue",
                                  !.domain = Head(flush_queue)]
    /\ flush_queue' = Tail(flush_queue)
    /\ WriterFrame
    /\ UNCHANGED <<buffers, buffer_sizes, last_flush, known, file_handlers,
                   running, item_count, lock, files, now, closer, submitted,
                   io_failed, last_restore, swallowed, surfaced>>

\* _background_flusher: the get times out (queue.Empty), the bare except
\* calls _check_time_based_flushes.
flusher_timeout ==
    /\ flusher.pc = "loop"
    /\ running
    /\ flush_queue = <<>>
    /\ flusher' = [flusher EXCEPT !.pc = "timecheck"]
    /\ WriterFrame
    /\ UNCHANGED <<buffers, buffer_sizes, last_flush, known, file_handlers,
                   flush_queue, running, item_count, lock, files, now, closer,
                   submitted, io_failed, last_restore, swallowed, surfaced>>

\* A time-based check that never finds a site to flush; C15 must tell it
\* from the code.
NoDomainsToFlush == <<>>

\* _check_time_based_flushes: the list built under the lock.
DomainsToFlush ==
    SelectSeq(known, LAMBDA d : (now - last_flush[d]) >= FlushInterval
                                /\ Len(buffers[d]) > 0)

check_time_based_flushes ==
    /\ flusher.pc = "timecheck"
    /\ lock = "free"
    /\ flusher' = FlusherAdvance([flusher EXCEPT !.mode = "time",
                                                 !.todo = DomainsToFlush])
    /\ WriterFrame
    /\ UNCHANGED <<buffers, buffer_sizes, last_flush, known, file_handlers,
                   flush_queue, running, item_count, lock, files, now, closer,
                   submitted, io_failed, last_restore, swallowed, surfaced>>

\* _flush_buffer, first block, in the flusher thread.
flusher_drain ==
    /\ flusher.pc = "drain"
    /\ lock = "free"
    /\ LET d == flusher.domain IN
       IF buffers[d] = <<>>
       THEN /\ flusher' = FlusherAdvance(flusher)
            /\ UNCHANGED <<buffers, buffer_sizes, last_flush>>
       ELSE /\ flusher' = [flusher EXCEPT !.pc = "write",
                                          !.items = Drained(d).items,
                                          !.bytes = Drained(d).bytes]
            /\ buffers' = [buffers EXCEPT ![d] = <<>>]
            /\ buffer_sizes' = [buffer_sizes EXCEPT ![d] = 0]
            /\ last_flush' = [last_flush EXCEPT ![d] = now]
    /\ WriterFrame
    /\ UNCHANGED <<known, file_handlers, flush_queue, running, item_count,
                   lock, files, now, closer, submitted, io_failed, last_restore, swallowed,
                   surfaced>>

\* _flush_buffer, the try block: open the file lazily in append mode,
\* writelines, flush.  A handler that is still in file_handlers but has been
\* closed raises ValueError; the file system may fail the write (here before
\* any byte of the batch reaches the file).
flusher_write ==
    /\ flusher.pc = "write"
    /\ LET d == flusher.domain IN
       \/ /\ file_handlers[d] # "closed"
          /\ file_handlers' = [file_handlers EXCEPT ![d] = "open"]
          /\ files' = [files EXCEPT ![d] = @ \o flusher.items]
          /\ flusher' = FlusherAdvance(flusher)
          /\ UNCHANGED io_failed
       \/ /\ file_handlers[d] # "closed"
          /\ io_failed' = TRUE
          /\ flusher' = [flusher EXCEPT !.pc = "restore"]
          /\ UNCHANGED <<file_handlers, files>>
       \/ /\ file_handlers[d] = "closed"
          /\ flusher' = [flusher EXCEPT !.pc = "restore"]
          /\ UNCHANGED <<file_handlers, files, io_failed>>
    /\ WriterFrame
    /\ UNCHANGED <<buffers, buffer_sizes, last_flush, known, flush_queue,
                   running, item_count, lock, now, closer, submitted,
                   last_restore, swallowed, surfaced>>

\* Where an exception raised by _flush_buffer ends in _background_flusher:
\* raised by the queued flush it is caught by the bare except, which runs
\* _check_time_based_flushes; raised inside that call it is caught by the
\* outer "except Exception", which logs it.
FlusherAfterRaise(f) ==
    IF f.mode = "queue"
    THEN [f EXCEPT !.pc = "timecheck", !.domain = "", !.items = <<>>, !.bytes = 0]
    ELSE [f EXCEPT !.pc = "loop", !.mode = "queue", !.todo = <<>>,
                   !.domain = "", !.items = <<>>, !.bytes = 0]

\* _flush_buffer, the except block in the flusher thread: restore, re-raise.
flusher_restore ==
    /\ flusher.pc = "restore"
    /\ lock = "free"
    /\ LET d == flusher.domain IN
       /\ buffers' = [buffers EXCEPT ![d] = RestoredBuffer(flusher.items, d)]
       /\ buffer_sizes' = [buffer_sizes EXCEPT ![d] = @ + flusher.bytes]
    /\ flusher' = FlusherAfterRaise(flusher)
    /\ last_restore' = [domain |-> flusher.domain, items |-> flusher.items,
                        found |-> buffers[flusher.domain]]
    /\ swallowed' = TRUE
    /\ WriterFrame
    /\ UNCHANGED <<last_flush, known, file_handlers, flush_queue, running,
                   item_count, lock, files, now, closer, submitted, io_failed,
                   surfaced>>


\* ---- close_spider ----

\* close_spider: self.running = False, then flush_thread.join(timeout=5).
close_spider ==
    /\ closer.pc = "idle"
    /\ cleanup.pc = "idle"
    /\ flusher.pc # "unstarted"
    /\ running' = FALSE
    /\ closer' = [closer EXCEPT !.pc = "join"]
    /\ WriterFrame
    /\ UNCHANGED <<buffers, buffer_sizes, last_flush, known, file_handlers,
                   flush_queue, item_count, lock, files, now, flusher,
                   submitted, io_failed, last_restore, swallowed, surfaced>>

\* Whether join(timeout=5) may return: the thread has ended, or it has not
\* and the five seconds have passed.
JoinReturns(timedOut) ==
    IF timedOut THEN flusher.pc # "stopped" ELSE flusher.pc = "stopped"

\* close_spider: join returns and "with self.lock" is entered, with
\* list(self.buffers.keys()) to go through.
close_join ==
    /\ closer.pc = "join"
    /\ \E timedOut \in BOOLEAN : JoinReturns(timedOut)
    /\ lock = "free"
    /\ lock' = "close"
    /\ closer' = [closer EXCEPT !.pc = "flush", !.todo = known]
    /\ WriterFrame
    /\ UNCHANGED <<buffers, buffer_sizes, last_flush, known, file_handlers,
                   flush_queue, running, item_count, files, now, flusher,
                   submitted, io_failed, last_restore, swallowed, surfaced>>

\* close_spider: one _flush_buffer(domain, force=True) of the loop, run with
\* self.lock held throughout (an RLock: the blocks of _flush_buffer re-enter
\* it).  A failed write restores the batch and the exception leaves
\* close_spider: the remaining domains are not flushed and no handler is
\* closed.
close_flush ==
    /\ closer.pc = "flush"
    /\ closer.todo # <<>>
    /\ LET d == Head(closer.todo) IN
       \/ /\ buffers[d] = <<>>
          /\ closer' = [closer EXCEPT !.todo = Tail(@)]
          /\ UNCHANGED <<buffers, buffer_sizes, last_flush, file_handlers,
                         files, io_failed, last_restore, surfaced, lock>>
       \/ /\ buffers[d] # <<>>
          /\ file_handlers[d] # "closed"
          /\ file_handlers' = [file_handlers EXCEPT ![d] = "open"]
          /\ files' = [files EXCEPT ![d] = @ \o Drained(d).items]
          /\ buffers' = [buffers EXCEPT ![d] = <<>>]
          /\ buffer_sizes' = [buffer_sizes EXCEPT ![d] = 0]
          /\ last_flush' = [last_flush EXCEPT ![d] = now]
          /\ closer' = [closer EXCEPT !.todo = Tail(@)]
          /\ UNCHANGED <<io_failed, last_restore, surfaced, lock>>
       \/ /\ buffers[d] # <<>>
          /\ buffers' = [buffers EXCEPT ![d] = Drained(d).items \o <<>>]
          /\ buffer_sizes' = [buffer_sizes EXCEPT ![d] = 0 + Drained(d).bytes]
          /\ last_flush' = [last_flush EXCEPT ![d] = now]
          /\ io_failed' = (io_failed \/ file_handlers[d] # "closed")
          /\ last_restore' = [domain |-> d, items |-> Drained(d).items,
                              found |-> <<>>]
          /\ surfaced' = TRUE
          /\ lock' = "free"
          /\ closer' = [closer EXCEPT !.pc = "raised", !.todo = <<>>]
          /\ UNCHANGED <<file_handlers, files>>
    /\ WriterFrame
    /\ UNCHANGED <<known, flush_queue, running, item_count, now, flusher,
                   submitted, swallowed>>

\* close_spider: the loop is over, the lock is released.
close_flushed ==
    /\ closer.pc = "flush"
    /\ closer.todo = <<>>
    /\ lock' = "free"
    /\ closer' = [closer EXCEPT !.pc = "handles"]
    /\ WriterFrame
    /\ UNCHANGED <<buffers, buffer_sizes, last_flush, known, file_handlers,
                   flush_queue, running, item_count, files, now, flusher,
                   submitted, io_failed, last_restore, swallowed, surfaced>>

\* close_spider: handler.close() for every handler; the entries stay in
\* self.file_handlers.
close_handlers ==
    /\ closer.pc = "handles"
    /\ file_handlers' = [d \in Domains |->
                           IF file_handlers[d] = "open" THEN "closed"
                           ELSE file_handlers[d]]
    /\ closer' = [closer EXCEPT !.pc = "done"]
    /\ WriterFrame
    /\ UNCHANGED <<buffers, buffer_sizes, last_flush, known, flush_queue,
                   running, item_count, lock, files, now, flusher, submitted,
                   io_failed, last_restore, swallowed, surfaced>>

\* ---- _emergency_cleanup, registered with atexit by open_spider ----

\* The interpreter exits and runs _emergency_cleanup in the main thread:
\* close_spider was never called, or has returned, or has raised.
\* self.running = False, and "with self.lock" is entered with
\* list(self.buffers.keys()) to go through.  The flusher is a daemon thread
\* and keeps running meanwhile.
emergency_start ==
    /\ cleanup.pc = "idle"
    /\ flusher.pc # "unstarted"
    /\ closer.pc \in {"idle", "done", "raised"}
    /\ lock = "free"
    /\ running' = FALSE
    /\ lock' = "cleanup"
    /\ cleanup' = [pc |-> "flush", todo |-> known]
    /\ EmergencyFrame
    /\ UNCHANGED <<buffers, buffer_sizes, last_flush, known, file_handlers,
                   flush_queue, item_count, files, now, flusher, closer,
                   submitted, io_failed, last_restore, swallowed, surfaced>>

\* One turn of the loop: an empty buffer is skipped, any other is passed to
\* _flush_buffer(domain, force=True).  A write that fails (the file system,
\* or a handle close_spider has closed and left in self.file_handlers)
\* restores the batch and raises; the outer "except Exception" logs it and
\* _emergency_cleanup returns without closing a handle.
emergency_flush ==
    /\ cleanup.pc = "flush"
    /\ cleanup.todo # <<>>
    /\ LET d == Head(cleanup.todo) IN
       \/ /\ buffers[d] = <<>>
          /\ cleanup' = [cleanup EXCEPT !.todo = Tail(@)]
          /\ UNCHANGED <<buffers, buffer_sizes, last_flush, file_handlers,
                         files, io_failed, last_restore, swallowed, lock>>
       \/ /\ buffers[d] # <<>>
          /\ file_handlers[d] # "closed"
          /\ file_handlers' = [file_handlers EXCEPT ![d] = "open"]
          /\ files' = [files EXCEPT ![d] = @ \o Drained(d).items]
          /\ buffers' = [buffers EXCEPT ![d] = <<>>]
          /\ buffer_sizes' = [buffer_sizes EXCEPT ![d] = 0]
          /\ last_flush' = [last_flush EXCEPT ![d] = now]
          /\ cleanup' = [cleanup EXCEPT !.todo = Tail(@)]
          /\ UNCHANGED <<io_failed, last_restore, swallowed, lock>>
       \/ /\ buffers[d] # <<>>
          /\ buffers' = [buffers EXCEPT ![d] = Drained(d).items \o <<>>]
          /\ buffer_sizes' = [buffer_sizes EXCEPT ![d] = 0 + Drained(d).bytes]
          /\ last_flush' = [last_flush EXCEPT ![d] = now]
          /\ io_failed' = (io_failed \/ file_handlers[d] # "closed")
          /\ last_restore' = [domain |-> d, items |-> Drained(d).items,
                              found |-> <<>>]
          /\ swallowed' = TRUE
          /\ lock' = "free"
          /\ cleanup' = [cleanup EXCEPT !.pc = "done", !.todo = <<>>]
          /\ UNCHANGED <<file_handlers, files>>
    /\ EmergencyFrame
    /\ UNCHANGED <<known, flush_queue, running, item_count, now, flusher,
                   closer, submitted, surfaced>>

\* The loop is over and the lock released; handler.close() for every
\* handler, and _emergency_cleanup returns.
emergency_close ==
    /\ cleanup.pc = "flush"
    /\ cleanup.todo = <<>>
    /\ lock' = "free"
    /\ file_handlers' = [d \in Domains |->
                           IF file_handlers[d] = "open" THEN "closed"
                           ELSE file_handlers[d]]
    /\ cleanup' = [cleanup EXCEPT !.pc = "done"]
    /\ EmergencyFrame
    /\ UNCHANGED <<buffers, buffer_sizes, last_flush, known, flush_queue,
                   running, item_count, files, now, flusher, closer,
                   submitted, io_failed, last_restore, swallowed, surfaced>>

WriterNext ==
    \/ open_spider
    \/ Tick
    \/ \E d \in Domains, size \in 1..MaxLineSize : process_item(d, size)
    \/ flusher_exit
    \/ flusher_get
    \/ flusher_timeout
    \/ check_time_based_flushes
    \/ flusher_drain
    \/ flusher_write
    \/ flusher_restore
    \/ close_spider
    \/ close_join
    \/ close_flush
    \/ close_flushed
    \/ close_handlers

---------------------------------------------------------------------------
(* Claims about the writer *)

\* The position of record r in the sequence s.
Pos(s, r) == CHOOSE i \in 1..Len(s) : s[i] = r

\* The batch the flusher thread owns for domain d (drained, not yet written
\* or restored).
FlusherOwns(d) ==
    IF flusher.pc \in {"write", "restore"} /\ flusher.domain = d
    THEN flusher.items ELSE <<>>

\* The records of d accepted so far that are neither in the file nor owned
\* by the flusher, in submission order.
Unwritten(d) ==
    SelectSeq(submitted[d], LAMBDA r : r \notin Range(files[d])
                                       /\ r \notin Range(FlusherOwns(d)))

\* C1: once close_spider has returned and the flusher thread has ended,
\* and no write was failed by the file system, the file of every site
\* holds exactly the records submitted for it, each once.
C1_ExactlyNLines ==
    (closer.pc = "done" /\ flusher.pc = "stopped" /\ ~io_failed)
        => \A d \in Domains : /\ Len(files[d]) = Len(submitted[d])
                              /\ Range(files[d]) = Range(submitted[d])

\* C4: a buffer always holds exactly the accepted records that are neither
\* written nor owned by a flush in progress, in submission order; so after
\* a failed flush has put its batch back, the buffer is that batch followed
\* by the records submitted since the drain, and none is lost.
C4_RestoredToFront ==
    \A d \in Domains : buffers[d] = Unwritten(d)

\* C4 witness: a failed flush has just put back a batch in front of a record
\* submitted after the drain.
C4_Witness ==
    /\ last_restore.items # <<>>
    /\ last_restore.found # <<>>
    /\ buffers[last_restore.domain] = last_restore.items \o last_restore.found
    /\ flusher.pc = "timecheck"

\* The total length of the serialized lines of a buffer.
RECURSIVE BytesOf(_)
BytesOf(lines) ==
    IF lines = <<>> THEN 0 ELSE Head(lines).size + BytesOf(Tail(lines))

\* C37: whenever no thread holds the buffer lock, the byte counter of each
\* site is the total length of the lines in the buffer of the site.
C37_ByteCounterMatchesBuffer ==
    lock = "free" => \A d \in Domains : buffer_sizes[d] = BytesOf(buffers[d])

\* C37 witness: a failed flush has put back its batch in front of a record
\* submitted since the drain, the lock is free, and the counter is the
\* length of both together.
C37_Witness ==
    /\ lock = "free"
    /\ last_restore.items # <<>>
    /\ last_restore.found # <<>>
    /\ buffers[last_restore.domain] = last_restore.items \o last_restore.found
    /\ buffer_sizes[last_restore.domain]
          = BytesOf(last_restore.items) + BytesOf(last_restore.found)

\* C5: no failure of a flush ends in a handler that only logs it: every
\* one is raised to the caller of the writer.
C5_FailureNeverSwallowed == ~swallowed

\* C6: the lines of a site's file are in submission order.
C6_SubmissionOrder ==
    \A d \in Domains : \A i, j \in 1..Len(files[d]) :
        i < j => Pos(submitted[d], files[d][i]) < Pos(submitted[d], files[d][j])

\* C7: shutdown joins the flusher before it releases the file handles: no
\* handle is closed while the flusher owns a drained batch or can still
\* drain one, and once the handles are released no record is left in a
\* buffer.
C7_ShutdownDrains ==
    /\ closer.pc \in {"handles", "done"} => flusher.pc = "stopped"
    /\ \A d \in Domains :
          file_handlers[d] = "closed" => FlusherOwns(d) = <<>>
    /\ (closer.pc = "done" /\ flusher.pc = "stopped" /\ ~io_failed)
          => \A d \in Domains : buffers[d] = <<>>

\* Record number i has been accepted for d / is in the file of d.
Accepted(d, i) == \E k \in 1..Len(submitted[d]) : submitted[d][k].id = i
Written(d, i) == \E k \in 1..Len(files[d]) : files[d][k].id = i

C16_NoWriteUnderLock ==
    [][files' # files => (lock = "free" /\ lock' = "free")]_vars

\* C20: process_item puts the site on the flush queue exactly when, the
\* record appended, the buffer holds at least BufferSize records, or more
\* than LargeLimit bytes, or FlushInterval has passed since the recorded
\* flush time of the site; otherwise the queue is left as it is.
C20_QueuedIffThreshold ==
    [][\A d \in Domains :
         submitted'[d] # submitted[d] =>
            IF \/ Len(buffers'[d]) >= BufferSize
               \/ buffer_sizes'[d] > LargeLimit
               \/ now - last_flush'[d] >= FlushInterval
            THEN flush_queue' = Append(flush_queue, d)
            ELSE flush_queue' = flush_queue]_vars

\* A single record below the item threshold and within the interval, whose
\* bytes alone have put its site on the flush queue.
C20_Witness ==
    \E d \in Domains :
        /\ item_count = 1
        /\ Len(buffers[d]) = 1
        /\ Len(buffers[d]) < BufferSize
        /\ buffer_sizes[d] > LargeLimit
        /\ now - last_flush[d] < FlushInterval
        /\ flush_queue = <<d>>

\* C19: when _emergency_cleanup has returned, every buffer is empty and
\* every accepted record is in its file, the file system not having failed
\* a write.
C19_EmergencyCleanupFlushesAll ==
    (cleanup.pc = "done" /\ ~io_failed) =>
        \A d \in Domains :
            /\ buffers[d] = <<>>
            /\ \A i \in 1..MaxRecords : Accepted(d, i) => Written(d, i)

---------------------------------------------------------------------------
(* Request resilience layer: bigdata/middlewares.py, the errback of        *)
(* bigdata/spiders/article.py, in the order of DOWNLOADER_MIDDLEWARES      *)

\* Attempts (responses or exceptions) of one logical request in a run.
MaxResponses == 4
\* max_retry_times of the request is 1..MaxRetryTimes.
MaxRetryTimes == 3

\* RETRY_PRIORITY_ADJUST of ArticleSpider.custom_settings.
priority_adjust == 10
\* The cap of the delay in _retry, in seconds.
MaxDelay == 60
\* ResponseValidationMiddleware._retry_short_response: retries allowed.
MaxShortRetries == 2

\* RETRY_HTTP_CODES of ArticleSpider.custom_settings, as far as the model's
\* statuses go.
Statuses == {200, 403, 404, 429, 503}
retry_http_codes == {403, 429, 500, 502, 503, 504, 520, 524}

\* Response bodies (all HtmlResponse): long and clean; shorter than
\* MIN_CONTENT_LENGTH (empty included); long with a blocking indicator.
Bodies == {"ok", "short", "captcha"}

\* Exceptions of the download: a builtin TimeoutError / ConnectionError
\* (in EXCEPTIONS_TO_RETRY), Twisted's TimeoutError (not in it).
Exceptions == {"builtin_timeout", "twisted_timeout"}

\* backoff_factor values, as fractions <<numerator, denominator>>.
BackoffFactors == {<<1, 2>>, <<2, 1>>, <<8, 1>>}

\* Priority a request is first scheduled with (0, or lowered by the depth).
InitialPriorities == {0, -1}

RECURSIVE Pow(_, _)
Pow(b, k) == IF k = 0 THEN 1 ELSE b * Pow(b, k - 1)

\* a <= b for fractions with positive denominators.
LeqQ(a, b) == a[1] * b[2] <= b[1] * a[2]

\* _retry: delay = min(backoff_factor ** retry_times, 60).
Delay(bf, retry_times) ==
    LET p == <<Pow(bf[1], retry_times), Pow(bf[2], retry_times)>>
    IN IF LeqQ(p, <<MaxDelay, 1>>) THEN p ELSE <<MaxDelay, 1>>

NoRequest == [priority |-> 0, is_article |-> FALSE, is_pagination |-> FALSE,
              dont_retry |-> FALSE, max_retry_times |-> 0,
              backoff_factor |-> <<2, 1>>, retry_times |-> 0,
              short_response_retry |-> 0, download_delay |-> <<1, 1>>,
              bot_protection_detected |-> FALSE, from_redis |-> FALSE]

\* The variables of the resilience layer while no request is followed.
RetryIdle ==
    /\ req = NoRequest
    /\ page = [initial_priority |-> 0, extractable |-> FALSE]
    /\ rpc = "idle"
    /\ responses = <<>>
    /\ sched = <<>>
    /\ delays = <<>>
    /\ requeue = <<>>
    /\ gave_up = 0
    /\ yielded = 0

\* A request as process_article_request / process_pagination_request /
\* the start-URL path leave it (_apply_domain_config sets the retry meta),
\* scheduled with its initial priority.
RetryInit ==
    /\ \E kind \in {"article", "pagination", "other"},
          p0 \in InitialPriorities,
          m \in 1..MaxRetryTimes,
          bf \in BackoffFactors,
          ex \in BOOLEAN :
          /\ req = [NoRequest EXCEPT !.priority = p0,
                                     !.is_article = (kind = "article"),
                                     !.is_pagination = (kind = "pagination"),
                                     !.max_retry_times = m,
                                     !.backoff_factor = bf]
          /\ page = [initial_priority |-> p0, extractable |-> ex]
          /\ sched = <<p0>>
    /\ rpc = "scheduled"
    /\ responses = <<>>
    /\ delays = <<>>
    /\ requeue = <<>>
    /\ gave_up = 0
    /\ yielded = 0

\* RequestPriorityMiddleware.process_request.
RequestPriority(r) ==
    IF r.is_article THEN 100
    ELSE IF r.is_pagination THEN 50
    ELSE 10

\* The process_request chain: the scheduler hands the request to the
\* downloader; RequestPriorityMiddleware (120) overwrites request.priority.
process_request ==
    /\ rpc = "scheduled"
    /\ Len(responses) < MaxResponses
    /\ req' = [req EXCEPT !.priority = RequestPriority(req)]
    /\ rpc' = "inflight"
    /\ RetryFrame
    /\ UNCHANGED <<page, responses, sched, delays, requeue, gave_up, yielded>>

\* SmartRetryMiddleware._retry.  result: "retry" with the retry request, or
\* "gave_up" with the push to the re-queue channel (priority 100).
RetryPriority(r) == r.priority + priority_adjust

_retry(r) ==
    LET retry_times == r.retry_times + 1 IN
    IF retry_times <= r.max_retry_times
    THEN [result |-> "retry",
          request |-> [r EXCEPT !.retry_times = retry_times,
                                !.priority = RetryPriority(r),
                                !.download_delay =
                                    Delay(r.backoff_factor, retry_times)],
          push |-> <<>>]
    ELSE [result |-> "gave_up", request |-> r, push |-> <<100>>]

\* ResponseValidationMiddleware._retry_short_response: a retry request, or
\* None after two of them.
_retry_short_response(r) ==
    LET retry_times == r.short_response_retry + 1 IN
    IF retry_times <= MaxShortRetries
    THEN [result |-> "retry",
          request |-> [r EXCEPT !.short_response_retry = retry_times,
                                !.priority = r.priority + 5]]
    ELSE [result |-> "none", request |-> r]

\* ResponseValidationMiddleware.process_response (570, first to see the
\* response): what it returns.
ResponseValidation(r, body) ==
    IF body = "short" /\ ~r.dont_retry
    THEN _retry_short_response(r)
    ELSE [result |-> "response", request |-> r]

\* BotProtectionDetectionMiddleware.process_response (560): a blocking
\* indicator in the body marks the request, pushes it at priority 90 and
\* raises IgnoreRequest, whatever the status.
BotProtection(r, body) ==
    IF body = "captcha"
    THEN [result |-> "ignore",
          request |-> [r EXCEPT !.bot_protection_detected = TRUE],
          push |-> <<90>>]
    ELSE [result |-> "response", request |-> r, push |-> <<>>]

\* SmartRetryMiddleware.process_response (550).
SmartRetry(r, status) ==
    IF r.dont_retry THEN [result |-> "response", request |-> r, push |-> <<>>]
    ELSE IF status \in retry_http_codes
    THEN LET t == _retry(r) IN
         IF t.result = "retry" THEN t
         ELSE [result |-> "response", request |-> r, push |-> t.push]
    ELSE [result |-> "response", request |-> r, push |-> <<>>]

\* ArticleSpider.errback_httpbin: the pushes it makes for a failure.
\* failure: [type |-> "HttpError", status |-> n] or [type |-> an exception].
errback_httpbin(failure) ==
    IF failure.type = "HttpError"
    THEN IF failure.status = 403 THEN <<100>>
         ELSE IF failure.status = 429 THEN <<50>>
         ELSE IF failure.status >= 500 THEN <<25>>
         ELSE <<>>
    ELSE IF failure.type = "twisted_timeout" THEN <<10>>
    ELSE <<5>>

\* The errback of the request, if it has one: a request made from a URL of
\* the Redis key has none.
Errback(r, failure) ==
    IF r.from_redis THEN <<>> ELSE errback_httpbin(failure)

\* Scrapy reschedules a request returned by a downloader middleware.
Reschedule(r) ==
    /\ req' = r
    /\ rpc' = "scheduled"
    /\ sched' = Append(sched, r.priority)

\* The request ends: the pushes made for it go to the re-queue channel.
Finish(r, pushes) ==
    /\ req' = r
    /\ rpc' = "finished"
    /\ requeue' = requeue \o pushes
    /\ UNCHANGED sched

\* The process_response chain for one response, in the order DOWNLOADER_
\* MIDDLEWARES gives it (570, 560, 550), then the spider: parse_item for a
\* 2xx status, errback_httpbin (through HttpError) for any other.  A
\* middleware that returns None or raises IgnoreRequest ends the download
\* with a failure, which Scrapy hands to the errback.
process_response(status, body) ==
    /\ rpc = "inflight"
    /\ responses' = Append(responses, [status |-> status, body |-> body])
    /\ LET rv == ResponseValidation(req, body)
           bot == BotProtection(req, body)
           sr == SmartRetry(req, status)
       IN
       IF rv.result = "retry"
       THEN /\ Reschedule(rv.request)
            /\ UNCHANGED <<delays, requeue, gave_up, yielded>>
       ELSE IF rv.result = "none"
       THEN /\ Finish(req, Errback(req, [type |-> "InvalidOutput"]))
            /\ UNCHANGED <<delays, gave_up, yielded>>
       ELSE IF bot.result = "ignore"
       THEN /\ Finish(bot.request,
                      bot.push \o Errback(req, [type |-> "IgnoreRequest"]))
            /\ UNCHANGED <<delays, gave_up, yielded>>
       ELSE IF sr.result = "retry"
       THEN /\ Reschedule(sr.request)
            /\ delays' = Append(delays, sr.request.download_delay)
            /\ UNCHANGED <<requeue, gave_up, yielded>>
       ELSE IF status = 200
       THEN /\ Finish(req, sr.push)
            /\ yielded' = IF page.extractable /\ body = "ok" /\ ~req.from_redis
                          THEN yielded + 1 ELSE yielded
            /\ UNCHANGED <<delays, gave_up>>
       ELSE /\ Finish(req, sr.push \o Errback(req,
                               [type |-> "HttpError", status |-> status]))
            /\ gave_up' = gave_up + Len(sr.push)
            /\ UNCHANGED <<delays, yielded>>
    /\ RetryFrame
    /\ UNCHANGED page

\* SmartRetryMiddleware.process_exception for a failed download, then the
\* errback when the exception is not turned into a retry request.
process_exception(exc) ==
    /\ rpc = "inflight"
    /\ responses' = Append(responses, [status |-> 0, body |-> exc])
    /\ LET t == IF exc = "builtin_timeout" /\ ~req.dont_retry
                THEN _retry(req)
                ELSE [result |-> "pass", request |-> req, push |-> <<>>]
       IN
       IF t.result = "retry"
       THEN /\ Reschedule(t.request)
            /\ delays' = Append(delays, t.request.download_delay)
            /\ UNCHANGED <<requeue, gave_up, yielded>>
       ELSE /\ Finish(req, t.push \o Errback(req, [type |-> exc]))
            /\ gave_up' = gave_up + Len(t.push)
            /\ UNCHANGED <<delays, yielded>>
    /\ RetryFrame
    /\ UNCHANGED page

\* RETRY_TIMES of ArticleSpider.custom_settings: the max_retry_times of a
\* request that carries none in its meta.
RETRY_TIMES == 5

\* ArticleSpider is a RedisCrawlSpider on redis_key, the key _requeue_request
\* pushes to: a pushed URL is read back and requested again, as a start
\* request: nothing of the old request's meta, no errback, no parse_item.
next_requests ==
    /\ rpc = "finished"
    /\ requeue # <<>>
    /\ Len(responses) < MaxResponses
    /\ requeue' = Tail(requeue)
    /\ req' = [NoRequest EXCEPT !.max_retry_times = RETRY_TIMES,
                                !.from_redis = TRUE]
    /\ rpc' = "scheduled"
    /\ sched' = Append(sched, req'.priority)
    /\ RetryFrame
    /\ UNCHANGED <<page, responses, delays, gave_up, yielded>>

RetryNext ==
    \/ process_request
    \/ \E status \in Statuses, body \in Bodies : process_response(status, body)
    \/ \E exc \in Exceptions : process_exception(exc)

---------------------------------------------------------------------------
(* Claims about the resilience layer *)

\* The priority RequestPriorityMiddleware gives the request at dispatch.
Tier == IF req.is_article THEN 100 ELSE IF req.is_pagination THEN 50 ELSE 10

\* C2: a request whose retry budget is exhausted is pushed to the re-queue
\* channel exactly once over its whole handling.
C2_ExhaustedOnce ==
    (rpc = "finished" /\ gave_up > 0) => Len(requeue) = 1

\* C8: the delay of retry k is min(backoff_factor ^ k, 60); it never exceeds
\* 60 and the delay of retry k + 1 is never smaller than that of retry k.
C8_BackoffMonotoneCapped ==
    \A k \in 1..Len(delays) :
        /\ LeqQ(delays[k], <<MaxDelay, 1>>)
        /\ k < Len(delays) => LeqQ(delays[k], delays[k + 1])

\* The request has seen three 429 responses and then a 200, all with a
\* regular body, and the page holds an article.
ThreeRateLimitsThenOk ==
    /\ rpc = "finished"
    /\ Len(responses) = 4
    /\ \A i \in 1..3 : responses[i] = [status |-> 429, body |-> "ok"]
    /\ responses[4] = [status |-> 200, body |-> "ok"]
    /\ page.extractable

\* C9: three 429 responses followed by a 200 produce a record, and the
\* request's priority at the 200 is its initial priority plus twice the
\* boost.
C9_ThreeRetriesThenRecord ==
    ThreeRateLimitsThenOk =>
        /\ yielded = 1
        /\ req.priority = page.initial_priority + 2 * priority_adjust

\* C10: the k-th retry of a request is scheduled with the initial priority
\* plus k times the increment (initial: the priority it was first scheduled
\* with, or the one it was first dispatched with), and retry_times counts
\* the retries.
C10_CumulativeBoost ==
    req.short_response_retry = 0 =>
        /\ Len(sched) = req.retry_times + 1
        /\ \E initial \in {page.initial_priority, Tier} :
              \A k \in 1..req.retry_times :
                  sched[k + 1] = initial + k * priority_adjust

\* C11: a response with a status of the retry-code set, whatever its body,
\* ends either in a retry request with the backoff delay and the boosted
\* priority, or, the budget spent, in the hand-off of _retry to the re-queue
\* channel; it is not delivered to the callback.
C11_RetryCodeIsRetryable ==
    [][(/\ rpc = "inflight"
        /\ Len(responses') = Len(responses) + 1
        /\ responses'[Len(responses')].status \in retry_http_codes
        /\ ~req.dont_retry)
       => \/ /\ rpc' = "scheduled"
             /\ req'.retry_times = req.retry_times + 1
             /\ req'.download_delay = Delay(req.backoff_factor,
                                            req'.retry_times)
             /\ req'.priority = req.priority + priority_adjust
          \/ /\ rpc' = "finished"
             /\ req.retry_times >= req.max_retry_times
             /\ gave_up' = gave_up + 1
             /\ yielded' = yielded]_vars

\* The response classifies the request as BotBlocked: a blocking phrase
\* in the body, or status 403 / 503 with a regular body.
BotBlocked(r) ==
    r.body = "captcha" \/ (r.status \in {403, 503} /\ r.body = "ok")

\* C12: for a request that is BotBlocked on every attempt, the attempt count
\* is carried by the request across re-queues and no fetch is scheduled once
\* it exceeds max_retries: whenever a fetch is scheduled or in flight the
\* request's retry_times is the number of attempts made and is within the
\* budget.
C12_BotBlockedExhausts ==
    (/\ rpc \in {"scheduled", "inflight"}
     /\ \A i \in 1..Len(responses) : BotBlocked(responses[i]))
        => /\ req.retry_times = Len(responses)
           /\ req.retry_times <= req.max_retry_times

\* The lowest priority a request blocked by a protection page is pushed
\* with (BotProtectionDetectionMiddleware), and the priority of a timed-out
\* one (errback_httpbin).
BotBlockedTier == 90
TimeoutTier == 10

LastResponse == responses[Len(responses)]

\* C13: an exhausted request is pushed to the re-queue channel, at a tier
\* given by the reason of its last failure: bot-blocked above rate-limited
\* above timed-out.  A request exhausted on a 429 is pushed, and every push
\* made for it is below the bot-blocked tier and above the timeout tier; one
\* exhausted on a timeout is pushed at no more than the timeout tier.
C13_TierByReason ==
    (rpc = "finished" /\ gave_up > 0) =>
        /\ requeue # <<>>
        /\ (LastResponse.status = 429 /\ LastResponse.body = "ok") =>
              \A i \in 1..Len(requeue) :
                  TimeoutTier < requeue[i] /\ requeue[i] < BotBlockedTier
        /\ LastResponse.status = 0 =>
              \A i \in 1..Len(requeue) : requeue[i] <= TimeoutTier

\* C14: a short body on a successful status is retried at most twice per
\* request, whatever the retry budget; the request then ends as a fetch
\* failure and nothing is pushed to the re-queue channel for it.
C14_ShortBodyBounded ==
    /\ req.short_response_retry <= MaxShortRetries
    /\ (/\ rpc = "finished"
        /\ \A i \in 1..Len(responses) :
              responses[i] = [status |-> 200, body |-> "short"])
          => /\ Len(responses) = MaxShortRetries + 1
             /\ yielded = 0
             /\ requeue = <<>>

\* C38: the request being fetched carries both retry counters, each within
\* its limit, and every fetch of the logical request after the first is
\* counted by one of them, so that the fetches never exceed
\* 1 + max_retry_times + 2; for every sequence of retryable statuses,
\* transport errors and short responses.
C38_RetryBudget ==
    (\A i \in 1..Len(responses) :
        \/ responses[i].status \in retry_http_codes /\ responses[i].body = "ok"
        \/ responses[i].status = 0
        \/ responses[i].body = "short") =>
    /\ req.retry_times <= req.max_retry_times
    /\ req.short_response_retry <= MaxShortRetries
    /\ rpc = "inflight" =>
          Len(responses) <= req.retry_times + req.short_response_retry
    /\ Len(responses) <= 1 + req.max_retry_times + MaxShortRetries

---------------------------------------------------------------------------
(* Offline deduplication: post_process/group_dedupe.py                     *)

\* Records in the input file.
MaxInput == 3
\* chunk_size is 1..MaxChunkSize.
MaxChunkSize == 2

\* URLs are strings of characters; the first character that is not a blank
\* stands for the host.  <<>> is the empty (or missing) url field.
Urls == {<<>>, <<"a">>, <<" ", "a">>, <<"a", " ">>, <<"a", "1">>, <<"b">>}
Hosts == {"a", "b"}
FileNames == Hosts \cup {"deduped"}

\* str.strip().
RECURSIVE Strip(_)
Strip(s) ==
    IF s = <<>> THEN s
    ELSE IF Head(s) = " " THEN Strip(Tail(s))
    ELSE IF s[Len(s)] = " " THEN Strip(SubSeq(s, 1, Len(s) - 1))
    ELSE s

\* extract_domain: the host of the URL, "unknown" when there is none.
extract_domain(url) == IF url = <<>> THEN "unknown" ELSE Head(url)

\* The variables of the stage while it does not run.
DedupIdle ==
    /\ input = <<>>
    /\ chunk_size = 1
    /\ group_by_domain = FALSE
    /\ chunks = <<>>
    /\ pending = {}
    /\ global_seen_urls = {}
    /\ all_unique_records = <<>>
    /\ all_domain_records = [h \in Hosts |-> <<>>]
    /\ output = [f \in FileNames |-> <<>>]
    /\ dpc = "idle"

\* GroupAndDedupe.__init__ and the input file; no aggregate file.
DedupInit ==
    /\ \E n \in 0..MaxInput : input \in [1..n -> Urls]
    /\ chunk_size \in 1..MaxChunkSize
    /\ group_by_domain \in BOOLEAN
    /\ chunks = <<>>
    /\ pending = {}
    /\ global_seen_urls = {}
    /\ all_unique_records = <<>>
    /\ all_domain_records = [h \in Hosts |-> <<>>]
    /\ output = [f \in FileNames |-> <<>>]
    /\ dpc = "start"

\* read_chunks: consecutive lists of chunk_size records, the rest last.
RECURSIVE SplitChunks(_, _)
SplitChunks(records, size) ==
    IF records = <<>> THEN <<>>
    ELSE IF Len(records) <= size THEN <<records>>
    ELSE <<SubSeq(records, 1, size)>>
         \o SplitChunks(SubSeq(records, size + 1, Len(records)), size)

read_chunks ==
    /\ dpc = "start"
    /\ chunks' = SplitChunks([i \in 1..Len(input) |-> i], chunk_size)
    /\ pending' = 1..Len(chunks')
    /\ dpc' = IF chunks' = <<>> THEN "done" ELSE "merging"
    /\ DedupFrame
    /\ UNCHANGED <<input, chunk_size, group_by_domain, global_seen_urls,
                   all_unique_records, all_domain_records, output>>

\* process_chunk, the loop: the records whose stripped url is not empty and
\* not seen before in the chunk, in the order of the chunk.
RECURSIVE KeptInChunk(_, _)
KeptInChunk(chunk, seen_urls_in_chunk) ==
    IF chunk = <<>> THEN <<>>
    ELSE LET url == Strip(input[Head(chunk)]) IN
         IF url = <<>> \/ url \in seen_urls_in_chunk
         THEN KeptInChunk(Tail(chunk), seen_urls_in_chunk)
         ELSE <<Head(chunk)>>
              \o KeptInChunk(Tail(chunk), seen_urls_in_chunk \cup {url})

\* The keys of domain_records in insertion order.
RECURSIVE DomainOrder(_, _)
DomainOrder(records, seen) ==
    IF records = <<>> THEN <<>>
    ELSE LET domain == extract_domain(Strip(input[Head(records)])) IN
         IF domain \in seen THEN DomainOrder(Tail(records), seen)
         ELSE <<domain>> \o DomainOrder(Tail(records), seen \cup {domain})

\* process_chunk: domain_records as the coordinator iterates it, a sequence
\* of [domain, record] in the order of domain_records.items().
RECURSIVE ItemsOf(_, _)
ItemsOf(domains, kept) ==
    IF domains = <<>> THEN <<>>
    ELSE LET mine == SelectSeq(kept, LAMBDA r :
                        extract_domain(Strip(input[r])) = Head(domains))
         IN [i \in 1..Len(mine) |-> [domain |-> Head(domains),
                                     record |-> mine[i]]]
            \o ItemsOf(Tail(domains), kept)

process_chunk(chunk) ==
    LET kept == KeptInChunk(chunk, {}) IN ItemsOf(DomainOrder(kept, {}), kept)

\* The body of the as_completed loop of dedupe_and_group for one result:
\* a record is taken when its url, as stored, is not in global_seen_urls.
\* A loop that stops at the first record whose url has been seen, where
\* the code goes on to the next record; C39 must tell it from the code.
RECURSIVE MergeUntilSeen(_, _, _)
MergeUntilSeen(items, acc, grouped) ==
    IF items = <<>> THEN acc
    ELSE LET url == input[Head(items).record]
             domain == Head(items).domain
         IN IF url # <<>> /\ url \notin acc.seen
            THEN MergeUntilSeen(Tail(items),
                   [seen |-> acc.seen \cup {url},
                    unique |-> IF grouped THEN acc.unique
                               ELSE Append(acc.unique, Head(items).record),
                    grouped |-> IF grouped
                                THEN [acc.grouped EXCEPT ![domain] =
                                        Append(@, Head(items).record)]
                                ELSE acc.grouped],
                   grouped)
            ELSE acc

\* grouped is self.group_by_domain of the run.
RECURSIVE MergeIn(_, _, _)
MergeIn(items, acc, grouped) ==
    IF items = <<>> THEN acc
    ELSE LET url == input[Head(items).record]
             domain == Head(items).domain
         IN IF url # <<>> /\ url \notin acc.seen
            THEN MergeIn(Tail(items),
                   [seen |-> acc.seen \cup {url},
                    unique |-> IF grouped THEN acc.unique
                               ELSE Append(acc.unique, Head(items).record),
                    grouped |-> IF grouped
                                THEN [acc.grouped EXCEPT ![domain] =
                                        Append(@, Head(items).record)]
                                ELSE acc.grouped],
                   grouped)
            ELSE MergeIn(Tail(items), acc, grouped)

\* A merge that takes every run for a single-file run; C30 must tell it
\* from the code.
MergeSingleFile(items, acc) == MergeIn(items, acc, FALSE)

Merge(items, acc) == MergeIn(items, acc, group_by_domain)

\* One future completes (in any order) and the coordinator merges it.
chunk_completed(c) ==
    /\ dpc = "merging"
    /\ c \in pending
    /\ LET acc == Merge(process_chunk(chunks[c]),
                        [seen |-> global_seen_urls,
                         unique |-> all_unique_records,
                         grouped |-> all_domain_records])
       IN /\ global_seen_urls' = acc.seen
          /\ all_unique_records' = acc.unique
          /\ all_domain_records' = acc.grouped
    /\ pending' = pending \ {c}
    /\ DedupFrame
    /\ UNCHANGED <<input, chunk_size, group_by_domain, chunks, output, dpc>>

\* The files are written once every future has completed.
write_results ==
    /\ dpc = "merging"
    /\ pending = {}
    /\ output' = IF group_by_domain
                 THEN [f \in FileNames |->
                         IF f \in Hosts THEN all_domain_records[f] ELSE <<>>]
                 ELSE [f \in FileNames |->
                         IF f = "deduped" THEN all_unique_records ELSE <<>>]
    /\ dpc' = "done"
    /\ DedupFrame
    /\ UNCHANGED <<input, chunk_size, group_by_domain, chunks, pending,
                   global_seen_urls, all_unique_records, all_domain_records>>

DedupNext ==
    \/ read_chunks
    \/ \E c \in pending : chunk_completed(c)
    \/ write_results

\* The URLs of the input: the url fields without surrounding blanks, the
\* empty one left out.
InputUrls == {Strip(input[i]) : i \in 1..Len(input)} \ {<<>>}

\* C3: in single-file mode the output has one record per distinct URL of
\* the input: no URL twice, none missing, whatever the chunk size and the
\* completion order.
C3_OneRecordPerUrl ==
    (dpc = "done" /\ ~group_by_domain) =>
        LET out == output["deduped"] IN
        /\ \A i, j \in 1..Len(out) :
              i # j => Strip(input[out[i]]) # Strip(input[out[j]])
        /\ {Strip(input[out[i]]) : i \in 1..Len(out)} = InputUrls

---------------------------------------------------------------------------
(* The deduplication stage with a seed set (--sample-url)                  *)

\* The lines a sample URL file may hold: a URL with a trailing blank, a
\* URL, an empty line.
SeedLines == {<<"a", " ">>, <<"b">>, <<>>}

\* _load_external_urls, the sample file: every line stripped, the empty
\* ones left out.
_load_external_urls(lines) == {Strip(l) : l \in lines} \ {<<>>}

SeedIdle == external_urls = {}

\* dedupe_and_group starts from the URLs loaded.
SeededInit ==
    /\ \E lines \in SUBSET SeedLines : external_urls = _load_external_urls(lines)
    /\ \E n \in 0..MaxInput : input \in [1..n -> Urls]
    /\ chunk_size \in 1..MaxChunkSize
    /\ group_by_domain \in BOOLEAN
    /\ chunks = <<>>
    /\ pending = {}
    /\ global_seen_urls = external_urls
    /\ all_unique_records = <<>>
    /\ all_domain_records = [h \in Hosts |-> <<>>]
    /\ output = [f \in FileNames |-> <<>>]
    /\ dpc = "start"

\* The records written, over all output files.
WrittenRecords ==
    UNION {{output[f][i] : i \in 1..Len(output[f])} : f \in FileNames}

\* C31: once the files are written, no record whose URL is in the seed set
\* is in any of them, and every URL of the input that is not in the seed
\* set has a record written.
C31_SeedsFilterOutput ==
    dpc = "done" =>
        /\ \A r \in WrittenRecords : Strip(input[r]) \notin external_urls
        /\ \A u \in InputUrls \ external_urls :
              \E r \in WrittenRecords : Strip(input[r]) = u

---------------------------------------------------------------------------
(* Grouped mode and single-file mode on the same input file                *)

\* The first run (the variables of the section above) is started with or
\* without --group; the second run reads the same input file, with the
\* same seed set (none), without --group.  Both split the input into
\* chunks of the size __init__ sets, and each has its own completion order.

PairIdle ==
    /\ sf_chunk_size = 1
    /\ sf_chunks = <<>>
    /\ sf_pending = {}
    /\ sf_seen = {}
    /\ sf_unique = <<>>
    /\ sf_output = <<>>
    /\ sf_pc = "idle"

PairInit ==
    /\ DedupInit
    /\ sf_chunk_size = chunk_size
    /\ sf_chunks = <<>>
    /\ sf_pending = {}
    /\ sf_seen = {}
    /\ sf_unique = <<>>
    /\ sf_output = <<>>
    /\ sf_pc = "start"

\* read_chunks of the second run.
sf_read_chunks ==
    /\ sf_pc = "start"
    /\ sf_chunks' = SplitChunks([i \in 1..Len(input) |-> i], sf_chunk_size)
    /\ sf_pending' = 1..Len(sf_chunks')
    /\ sf_pc' = IF sf_chunks' = <<>> THEN "done" ELSE "merging"
    /\ PairFrame
    /\ UNCHANGED <<sf_chunk_size, sf_seen, sf_unique, sf_output>>

\* One future of the second run completes and its result is merged.
sf_chunk_completed(c) ==
    /\ sf_pc = "merging"
    /\ c \in sf_pending
    /\ LET acc == MergeIn(process_chunk(sf_chunks[c]),
                          [seen |-> sf_seen, unique |-> sf_unique,
                           grouped |-> [h \in Hosts |-> <<>>]],
                          FALSE)
       IN /\ sf_seen' = acc.seen
          /\ sf_unique' = acc.unique
    /\ sf_pending' = sf_pending \ {c}
    /\ PairFrame
    /\ UNCHANGED <<sf_chunk_size, sf_chunks, sf_output, sf_pc>>

\* The second run writes <stem>_deduped.jsonl.
sf_write_results ==
    /\ sf_pc = "merging"
    /\ sf_pending = {}
    /\ sf_output' = sf_unique
    /\ sf_pc' = "done"
    /\ PairFrame
    /\ UNCHANGED <<sf_chunk_size, sf_chunks, sf_pending, sf_seen, sf_unique>>

PairNext ==
    \/ read_chunks
    \/ \E c \in pending : chunk_completed(c)
    \/ write_results
    \/ sf_read_chunks
    \/ \E c \in sf_pending : sf_chunk_completed(c)
    \/ sf_write_results

\* The number of records in the per-site files of the grouped run.
RECURSIVE GroupedCount(_)
GroupedCount(hosts) ==
    IF hosts = {} THEN 0
    ELSE LET h == CHOOSE h \in hosts : TRUE
         IN Len(output[h]) + GroupedCount(hosts \ {h})

\* Every record of the per-site files is in one file only, once, and in
\* the file of the site extract_domain derives from its url.
EachRecordInItsFile ==
    /\ \A h \in Hosts : \A i \in 1..Len(output[h]) :
          /\ extract_domain(Strip(input[output[h][i]])) = h
          /\ \A g \in Hosts : \A j \in 1..Len(output[g]) :
                output[g][j] = output[h][i] => (g = h /\ j = i)
    /\ output["deduped"] = <<>>

\* C30: when a grouped and a single-file run have written their files, the
\* per-site files of the grouped run hold as many records as the file of
\* the single-file run, and every record kept is in exactly one per-site
\* file, that of its site.
C30_ModesKeepSameRecords ==
    (dpc = "done" /\ sf_pc = "done" /\ group_by_domain) =>
        /\ GroupedCount(Hosts) = Len(sf_output)
        /\ EachRecordInItsFile

\* C30 witness: an input of three records with a duplicate, the grouped
\* run has written a record to each of two per-site files and the
\* single-file run two records to its file.
C30_Witness ==
    /\ dpc = "done"
    /\ sf_pc = "done"
    /\ group_by_domain
    /\ Len(input) = 3
    /\ Len(output["a"]) = 1
    /\ Len(output["b"]) = 1
    /\ Len(sf_output) = 2

\* The urls of the records of a file.
UrlsOf(records) == {input[records[i]] : i \in 1..Len(records)}

\* C39: two runs on the same input, whatever the order in which their
\* chunks complete, write the same set of URLs.
C39_SameUrlsForEveryOrder ==
    (dpc = "done" /\ sf_pc = "done") =>
        UNION {UrlsOf(output[f]) : f \in FileNames} = UrlsOf(sf_output)

\* C39 witness: two single-file runs have kept different records of the
\* same URL, because their chunks completed in different orders.
C39_Witness ==
    /\ dpc = "done"
    /\ sf_pc = "done"
    /\ ~group_by_domain
    /\ output["deduped"] # <<>>
    /\ output["deduped"] # sf_output
    /\ UrlsOf(output["deduped"]) = UrlsOf(sf_output)

---------------------------------------------------------------------------
(* The open file handles of JSONExportPipeline over many sites             *)

\* Sites are 1..NumSites, numbered in the order their first record comes.
NumSites == 5
\* The limit on open handles (100 in _flush_buffer), scaled down.
MaxHandlers == 2
\* Clock values are 0..MaxClock.
MaxClock == 4

\* hl_last_flush is a sequence of [domain, time] in the insertion order of
\* the dict.
HandlesInit ==
    /\ hl_last_flush = <<>>
    /\ hl_file_handlers = {}
    /\ hl_now = 0
    /\ hl_closed = {}

HlKeys == {hl_last_flush[i].domain : i \in 1..Len(hl_last_flush)}

\* self.last_flush[domain] = t: a new key goes last, a known key keeps its
\* place.
SetLastFlush(lf, d, t) ==
    IF \E i \in 1..Len(lf) : lf[i].domain = d
    THEN [i \in 1..Len(lf) |-> IF lf[i].domain = d
                               THEN [domain |-> d, time |-> t] ELSE lf[i]]
    ELSE Append(lf, [domain |-> d, time |-> t])

\* sorted(self.last_flush.items(), key=lambda x: x[1]): stable, by time.
RECURSIVE SortedByTime(_)
SortedByTime(lf) ==
    IF lf = <<>> THEN <<>>
    ELSE LET m == CHOOSE i \in 1..Len(lf) :
                    \A j \in 1..Len(lf) :
                        \/ lf[i].time < lf[j].time
                        \/ (lf[i].time = lf[j].time /\ i <= j)
         IN <<lf[m]>> \o SortedByTime(
                [k \in 1..(Len(lf) - 1) |-> IF k < m THEN lf[k] ELSE lf[k + 1]])

\* _cleanup_old_handlers: the domains of the older half of last_flush.
DomainsToClose(lf) ==
    LET sorted_domains == SortedByTime(lf) IN
    {sorted_domains[i].domain : i \in 1..(Len(sorted_domains) \div 2)}

\* time.time() advances.
hl_tick ==
    /\ hl_now < MaxClock
    /\ hl_now' = hl_now + 1
    /\ HandleFrame
    /\ UNCHANGED <<hl_last_flush, hl_file_handlers, hl_closed>>

\* process_item for a site seen for the first time: reading
\* self.last_flush[domain] makes the entry.
hl_process_item(d) ==
    /\ d = Len(hl_last_flush) + 1
    /\ hl_last_flush' = SetLastFlush(hl_last_flush, d, hl_now)
    /\ HandleFrame
    /\ UNCHANGED <<hl_file_handlers, hl_now, hl_closed>>

\* _flush_buffer of a site with a buffered record, the write succeeding:
\* last_flush is set, the handle opened if absent, and with more than
\* MaxHandlers handles open _cleanup_old_handlers closes and deletes the
\* handles of the domains it picks.
hl_flush_buffer(d) ==
    /\ d \in HlKeys
    /\ LET lf == SetLastFlush(hl_last_flush, d, hl_now)
           opened == hl_file_handlers \cup {d}
       IN /\ hl_last_flush' = lf
          /\ IF Cardinality(opened) > MaxHandlers
             THEN /\ hl_closed' = DomainsToClose(lf) \cap opened
                  /\ hl_file_handlers' = opened \ DomainsToClose(lf)
             ELSE /\ hl_closed' = {}
                  /\ hl_file_handlers' = opened
    /\ HandleFrame
    /\ UNCHANGED hl_now

HandlesNext ==
    \/ hl_tick
    \/ \E d \in 1..NumSites : hl_process_item(d)
    \/ \E d \in 1..NumSites : hl_flush_buffer(d)

TimeOf(d) ==
    LET i == CHOOSE i \in 1..Len(hl_last_flush) : hl_last_flush[i].domain = d
    IN hl_last_flush[i].time

\* C17: when a flush returns at most MaxHandlers handles are open, and no
\* handle it closed was flushed more recently than one it left open.
C17_HandlesBounded ==
    /\ Cardinality(hl_file_handlers) <= MaxHandlers
    /\ \A c \in hl_closed : \A o \in hl_file_handlers : TimeOf(c) <= TimeOf(o)

---------------------------------------------------------------------------
(* RotatingJSONExportPipeline: one site                                    *)

\* max_file_size (500 MB), scaled down to bytes of the model.
MaxFileSize == 2
\* A record has 1..MaxRecordBytes bytes.
MaxRecordBytes == 2
\* At most MaxBuffered bytes are buffered at a time.
MaxBuffered == 3
\* At most MaxWritten bytes are written in all.
MaxWritten == 8
\* Part indices are 0..MaxParts.
MaxParts == 2

RotateInit ==
    /\ rt_buffer_sizes = 0
    /\ rt_file_sizes = -1
    /\ rt_file_indices = 0
    /\ rt_file_handlers = -1
    /\ rt_files = [p \in 0..MaxParts |-> 0]
    /\ rt_pc = "idle"

\* _get_filename: a file is named by its part index, index 0 having no
\* suffix.
_get_filename(index) == index

\* The file JSONExportPipeline._flush_buffer opens for a site:
\* "<sanitized domain>.jsonl", the name without a part suffix.
ParentFilename == 0

\* process_item, as far as the byte count of the buffer goes.
rt_process_item(size) ==
    /\ rt_buffer_sizes + size <= MaxBuffered
    /\ rt_buffer_sizes' = rt_buffer_sizes + size
    /\ RotateFrame
    /\ UNCHANGED <<rt_file_sizes, rt_file_indices, rt_file_handlers, rt_files, rt_pc>>

\* file_sizes has the key and the tracked size has reached the cap.
RotationNeeded == rt_file_sizes # -1 /\ rt_file_sizes >= MaxFileSize

\* RotatingJSONExportPipeline._flush_buffer up to the return of the parent's
\* _flush_buffer: _rotate_file when needed (handle closed and deleted, index
\* + 1, tracked size 0), then the parent drains the buffer and writes it to
\* the file of the handle, opening ParentFilename when there is none.
rt_flush_buffer ==
    /\ rt_pc = "idle"
    /\ RotationNeeded => rt_file_indices < MaxParts
    /\ LET handler == IF RotationNeeded THEN -1 ELSE rt_file_handlers
           target == IF handler = -1 THEN ParentFilename ELSE handler
       IN /\ rt_file_indices' = IF RotationNeeded THEN rt_file_indices + 1
                                ELSE rt_file_indices
          /\ rt_file_sizes' = IF RotationNeeded THEN 0 ELSE rt_file_sizes
          /\ IF rt_buffer_sizes = 0
             THEN /\ rt_file_handlers' = handler
                  /\ UNCHANGED rt_files
             ELSE /\ rt_files[target] + rt_buffer_sizes <= MaxWritten
                  /\ rt_file_handlers' = target
                  /\ rt_files' = [rt_files EXCEPT ![target] = @ + rt_buffer_sizes]
    /\ rt_buffer_sizes' = 0
    /\ rt_pc' = "flushed"
    /\ RotateFrame

\* Lines 477-478, after the parent returned: the tracked size grows by the
\* bytes that are in the buffer now.
rt_update_size ==
    /\ rt_pc = "flushed"
    /\ rt_file_sizes' = (IF rt_file_sizes = -1 THEN 0 ELSE rt_file_sizes) + rt_buffer_sizes
    /\ rt_pc' = "idle"
    /\ RotateFrame
    /\ UNCHANGED <<rt_buffer_sizes, rt_file_indices, rt_file_handlers, rt_files>>

RotateNext ==
    \/ \E size \in 1..MaxRecordBytes : rt_process_item(size)
    \/ rt_flush_buffer
    \/ rt_update_size

\* C18: a file whose written size exceeds the cap receives no later flush,
\* the records going to the file of the next part index; the part index
\* never decreases and grows by one at a time.
C18_RotatesPastCap ==
    [][/\ \A p \in 0..MaxParts :
            rt_files[p] > MaxFileSize => rt_files'[p] = rt_files[p]
       /\ rt_file_indices' \in {rt_file_indices, rt_file_indices + 1}]_vars

---------------------------------------------------------------------------
(* Per-site pacing: DownloadDelayMiddleware of bigdata/middlewares.py      *)

\* Clock values are 0..MaxNow.
MaxNow == 4
\* A request asks for a delay of 1..MaxDownloadDelay: download_delay of the
\* site's configuration, or the backoff delay _retry has put in its place.
MaxDownloadDelay == 2
\* Requests passing the middleware in a run.
MaxDispatches == 3

\* urlparse(url).netloc, as its sequence of labels.
Netlocs == {<<"a", "com">>, <<"www", "a", "com">>, <<"b", "com">>}

\* netloc.replace('www.', ''): every label "www" that a dot follows is
\* dropped (no label of Netlocs merely ends in "www").
RECURSIVE ReplaceWww(_)
ReplaceWww(netloc) ==
    IF Len(netloc) <= 1 THEN netloc
    ELSE IF Head(netloc) = "www" THEN ReplaceWww(Tail(netloc))
    ELSE <<Head(netloc)>> \o ReplaceWww(Tail(netloc))

\* The site of a request, as process_article_request,
\* process_pagination_request and parse_item derive it to look up the
\* site's configuration.
SiteOf(netloc) == ReplaceWww(netloc)

PaceInit ==
    /\ pace_last_request_time = [h \in Netlocs |-> -1]
    /\ pace_now = 0
    /\ pace_dispatched = <<>>

\* time.time() advances.
pace_tick ==
    /\ pace_now < MaxNow
    /\ pace_now' = pace_now + 1
    /\ PaceFrame
    /\ UNCHANGED <<pace_last_request_time, pace_dispatched>>

\* The time at which process_request is past its time.sleep: at once when
\* the netloc is not in last_request_time or the delay has elapsed, else
\* after the rest of the delay.
AfterSleep(netloc, delay) ==
    IF pace_last_request_time[netloc] # -1
       /\ pace_now - pace_last_request_time[netloc] < delay
    THEN pace_now + (delay - (pace_now - pace_last_request_time[netloc]))
    ELSE pace_now

\* DownloadDelayMiddleware.process_request for a request to netloc with
\* meta['download_delay'] = delay.
pace_process_request(netloc, delay) ==
    /\ Len(pace_dispatched) < MaxDispatches
    /\ AfterSleep(netloc, delay) <= MaxNow
    /\ pace_now' = AfterSleep(netloc, delay)
    /\ pace_last_request_time' =
            [pace_last_request_time EXCEPT ![netloc] = AfterSleep(netloc, delay)]
    /\ pace_dispatched' = Append(pace_dispatched,
            [netloc |-> netloc, delay |-> delay, time |-> AfterSleep(netloc, delay)])
    /\ PaceFrame

PaceNext ==
    \/ pace_tick
    \/ \E netloc \in Netlocs, delay \in 1..MaxDownloadDelay :
            pace_process_request(netloc, delay)

\* Dispatches i < j are consecutive dispatches to one site.
ConsecutiveForSite(i, j) ==
    /\ i < j
    /\ SiteOf(pace_dispatched[i].netloc) = SiteOf(pace_dispatched[j].netloc)
    /\ \A k \in (i + 1)..(j - 1) :
            SiteOf(pace_dispatched[k].netloc) # SiteOf(pace_dispatched[j].netloc)

\* C21: two consecutive dispatches to a site are at least the delay of the
\* later request apart.
C21_PerSitePacing ==
    \A i, j \in 1..Len(pace_dispatched) :
        ConsecutiveForSite(i, j) =>
            pace_dispatched[j].time - pace_dispatched[i].time >= pace_dispatched[j].delay

---------------------------------------------------------------------------
(* Proxy selection: ArticleSpider._get_proxy of bigdata/spiders/article.py *)

\* A site's proxy_list has 0..MaxProxies entries.
MaxProxies == 2
\* Calls of _get_proxy in a run.
MaxSelections == 4

ProxySites == {"a.com", "b.com"}
Strategies == {"round_robin", "random", "sticky"}

\* The proxy lists of a configuration: the first n of these.
AllProxies == <<"p1", "p2", "p3", "p4">>
ProxyList(n) == SubSeq(AllProxies, 1, n)

\* No site is configured (the other subsystems are under check).
ProxyIdle ==
    /\ proxy_config = [s \in ProxySites |->
                         [proxy_list |-> <<>>, rotation_strategy |-> "random"]]
    /\ proxy_index = [s \in ProxySites |-> -1]
    /\ proxy_returned = <<>>

\* The configurations are loaded before the crawl and not changed by it.
ProxyInit ==
    /\ proxy_config \in [ProxySites ->
            [proxy_list : {ProxyList(n) : n \in 0..MaxProxies},
             rotation_strategy : Strategies]]
    /\ proxy_index = [s \in ProxySites |-> -1]
    /\ proxy_returned = <<>>

\* An index update that stays where it is.
SameIndex(index, n) == index

\* The index after a round-robin selection.
NextIndex(index, n) == (index + 1) % n

\* self.proxy_index[domain_key], set to 0 when the key is absent.
IndexOrZero(site) == IF proxy_index[site] = -1 THEN 0 ELSE proxy_index[site]

\* _get_proxy(config) for the configuration of site; "none" is None.  With
\* the random strategy any entry of the list may come back.
_get_proxy(site) ==
    /\ Len(proxy_returned) < MaxSelections
    /\ LET list == proxy_config[site].proxy_list
           strategy == proxy_config[site].rotation_strategy
       IN IF list = <<>>
          THEN /\ proxy_returned' = Append(proxy_returned, [site |-> site, proxy |-> "none"])
               /\ UNCHANGED proxy_index
          ELSE IF strategy = "random"
          THEN /\ \E k \in 1..Len(list) :
                    proxy_returned' = Append(proxy_returned, [site |-> site, proxy |-> list[k]])
               /\ UNCHANGED proxy_index
          ELSE IF strategy = "round_robin"
          THEN /\ proxy_returned' = Append(proxy_returned,
                        [site |-> site, proxy |-> list[IndexOrZero(site) + 1]])
               /\ proxy_index' = [proxy_index EXCEPT
                        ![site] = NextIndex(IndexOrZero(site), Len(list))]
          ELSE /\ proxy_returned' = Append(proxy_returned,
                        [site |-> site, proxy |-> list[IndexOrZero(site) + 1]])
               /\ proxy_index' = [proxy_index EXCEPT ![site] = IndexOrZero(site)]
    /\ UNCHANGED proxy_config
    /\ ProxyFrame

ProxyNext == \E site \in ProxySites : _get_proxy(site)

\* The proxies returned for a site, in order.
RECURSIVE ReturnedFor(_, _)
ReturnedFor(site, returned) ==
    IF returned = <<>> THEN <<>>
    ELSE IF Head(returned).site = site
         THEN <<Head(returned).proxy>> \o ReturnedFor(site, Tail(returned))
         ELSE ReturnedFor(site, Tail(returned))

\* C22: for a round-robin site with n proxies the k-th selection made for
\* it is entry (k - 1) mod n of its list, so that any n consecutive
\* selections give every entry once in list order; its index is within
\* 0..n-1 and counts the selections made for this site alone.
C22_RoundRobinCycles ==
    \A site \in ProxySites :
        LET list == proxy_config[site].proxy_list
            n == Len(list)
            sel == ReturnedFor(site, proxy_returned)
        IN (proxy_config[site].rotation_strategy = "round_robin" /\ n > 0) =>
            /\ \A k \in 1..Len(sel) : sel[k] = list[((k - 1) % n) + 1]
            /\ proxy_index[site] \in (-1)..(n - 1)
            /\ (proxy_index[site] = -1) <=> (sel = <<>>)
            /\ proxy_index[site] # -1 => proxy_index[site] = Len(sel) % n

\* A round-robin site with two proxies has been selected for three times,
\* with a selection for the other site in between.
C22_Witness ==
    \E site \in ProxySites :
        /\ proxy_config[site].rotation_strategy = "round_robin"
        /\ Len(proxy_config[site].proxy_list) = MaxProxies
        /\ Len(ReturnedFor(site, proxy_returned)) = MaxProxies + 1
        /\ Len(proxy_returned) = MaxProxies + 2
        /\ proxy_returned[2].site # site

---------------------------------------------------------------------------
(* Extraction dispatcher: ArticleSpider.parse_item of spiders/article.py   *)

\* The length under which parse_item drops a cleaned body.
MinCleanedChars == 50
\* The paragraph text under which the heuristic scorer has low confidence.
MinParagraphChars == 150

\* config.custom_parser: None; the name of a callable attribute of the
\* spider; a name the spider has no callable attribute for; a CustomParser
\* object (domain_configs/bonappetit_com.py).
CustomParsers == {"none", "method", "unknown", "object"}

\* response.xpath(config.title_xpath).get(): None, a string of white space,
\* a title.
Titles == {"absent", "blank", "text"}

\* Character counts of the body node the body xpath selects: of its tags,
\* of its text outside the excluded subtrees, of the excluded subtrees.
MarkupLens == {11, 60}
TextLens == {0, 49, 50}
ExcludedLens == {0, 60}

NoBody == [found |-> FALSE, markup |-> 0, text |-> 0, excluded |-> 0]

BodyNodes ==
    {NoBody} \cup [found : {TRUE}, markup : MarkupLens, text : TextLens,
                   excluded : ExcludedLens]

\* What the routine a custom_parser names yields when called: no item, or
\* one item, which may lack a title and have any body.
CustomItems ==
    [title : {"absent", "text"}, body_len : {60}, text_len : {0, 50},
     extraction_method : {"unset"}]

CustomOutcomes == {<<>>} \cup {<<i>> : i \in CustomItems}

NoConfig == [present |-> FALSE, custom_parser |-> "none"]

Configs == {NoConfig} \cup [present : {TRUE}, custom_parser : CustomParsers]

Pages ==
    [title : Titles, body : BodyNodes, custom : CustomOutcomes,
     paragraph_text : {0, 149, 150}]

NoOutput == [items |-> <<>>, ran |-> {}, raised |-> FALSE]

ExtractIdle ==
    /\ ex_config = NoConfig
    /\ ex_page = [title |-> "absent", body |-> NoBody, custom |-> <<>>,
                  paragraph_text |-> 0]
    /\ ex_out = NoOutput
    /\ ex_pc = "idle"

\* A response arrives at parse_item.
ExtractInit ==
    /\ ex_config \in Configs
    /\ ex_page \in Pages
    /\ (ex_config.custom_parser \in {"none", "unknown", "object"} => ex_page.custom = <<>>)
    /\ ex_out = NoOutput
    /\ ex_pc = "start"

\* clean_html_fragment: the excluded subtrees are removed from the fragment
\* and the rest is serialized, tags included.
clean_html_fragment(body) ==
    [body_len |-> body.markup + body.text, text_len |-> body.text]

\* The standard extraction of parse_item (lines 416-500): title, then body,
\* then the length of the cleaned HTML.
StandardExtraction(pg) ==
    IF pg.title \in {"absent", "blank"} THEN <<>>
    ELSE IF ~pg.body.found THEN <<>>
    ELSE IF clean_html_fragment(pg.body).body_len < MinCleanedChars THEN <<>>
    ELSE <<[title |-> pg.title,
            body_len |-> clean_html_fragment(pg.body).body_len,
            text_len |-> clean_html_fragment(pg.body).text_len,
            extraction_method |-> "unset"]>>

\* ArticleSpider.parse_item.  getattr(self, config.custom_parser, None)
\* raises TypeError for an object, before any try block.
dispatch_parse_item ==
    /\ ex_pc = "start"
    /\ ex_out' =
         IF ~ex_config.present THEN NoOutput
         ELSE IF ex_config.custom_parser = "method"
         THEN [items |-> ex_page.custom, ran |-> {"custom"}, raised |-> FALSE]
         ELSE IF ex_config.custom_parser = "object"
         THEN [items |-> <<>>, ran |-> {}, raised |-> TRUE]
         ELSE [items |-> StandardExtraction(ex_page), ran |-> {"selector"},
               raised |-> FALSE]
    /\ ex_pc' = "done"
    /\ UNCHANGED <<ex_config, ex_page>>
    /\ ExtractFrame

ExtractNext == dispatch_parse_item

\* C23: with a custom routine declared, parse_item has run that routine
\* and nothing else, and yielded what the routine yields.
C23_CustomRoutineExclusive ==
    (ex_pc = "done" /\ ex_config.present /\ ex_config.custom_parser # "none") =>
        /\ ex_out.ran = {"custom"}
        /\ ex_out.items = ex_page.custom

\* The selectors of the configuration are what parse_item goes by: a
\* configuration is there and declares no custom routine.
SelectorsApply == ex_config.present /\ ex_config.custom_parser = "none"

\* C24: a page with a configuration, a title and a body whose text, the
\* excluded subtrees removed, has at least MinCleanedChars characters gives
\* one item marked as extracted by selector, the heuristic scorer not run.
C24_SelectorResult ==
    (/\ ex_pc = "done"
     /\ SelectorsApply
     /\ ex_page.title = "text"
     /\ ex_page.body.found
     /\ ex_page.body.text >= MinCleanedChars) =>
        /\ Len(ex_out.items) = 1
        /\ ex_out.items[1].extraction_method = "selector"
        /\ "heuristic" \notin ex_out.ran

\* The selector-based extraction fails as the specification has it: no
\* title, no body node, or a body text under the minimum.
SelectorFails ==
    \/ ex_page.title \in {"absent", "blank"}
    \/ ~ex_page.body.found
    \/ ex_page.body.text < MinCleanedChars

\* C25: without a configuration, or with the selector-based extraction
\* failing, the heuristic scorer is run, and no item comes out only when
\* the scorer finds less than MinParagraphChars of paragraph text.
C25_FallsThroughToScorer ==
    (ex_pc = "done" /\ (~ex_config.present \/ (SelectorsApply /\ SelectorFails))) =>
        /\ "heuristic" \in ex_out.ran
        /\ ex_out.items = <<>> => ex_page.paragraph_text < MinParagraphChars

\* C29: an item of the selector-based extraction has a title and a body
\* text, tags stripped, of at least MinCleanedChars characters.
C29_ItemsMeetThreshold ==
    (ex_pc = "done" /\ ex_out.ran = {"selector"}) =>
        \A k \in 1..Len(ex_out.items) :
            /\ ex_out.items[k].title = "text"
            /\ ex_out.items[k].text_len >= MinCleanedChars

---------------------------------------------------------------------------
(* Heuristic content scorer: GenericAutoParser of parsers/generic_auto.py  *)

\* A document has NumNodes nodes under its root.
NumNodes == 3
\* A URL has 1..MaxSegments path segments.
MaxSegments == 2
\* _extract_body_html is run at most MaxRuns times on a response.
MaxRuns == 2

\* min_body_chars of GenericAutoParser.__init__.
min_body_chars == 200
\* The confidence floor of _extract_body_html.
ConfidenceFloor == 500
\* The weights of the score.
ParagraphWeight == 100
LinkPenalty == 50
NavPenalty == 150
ListItemPenalty == 10
ShortTextPenalty == 1000
\* float('-inf'), below every score of the model.
NegInf == -100000

\* Path segments: one a deny pattern matches ("/login"), one with a static
\* extension, one an article pattern matches ("/news"), a slug of thirty
\* characters, and one nothing matches.
UrlSegments == {"login", "pic.jpg", "news", "a-slug-of-thirty-characters-xx", "about"}

RECURSIVE SeqsUpTo(_, _)
SeqsUpTo(S, n) ==
    IF n = 0 THEN {<<>>}
    ELSE SeqsUpTo(S, n - 1) \cup
         {Append(q, x) : q \in {r \in SeqsUpTo(S, n - 1) : Len(r) = n - 1}, x \in S}

HeurUrls == SeqsUpTo(UrlSegments, MaxSegments) \ {<<>>}

\* A pattern of DEFAULT_DENY_PATTERNS is found in the URL: "/login"
\* anywhere, or a static extension at the end.
DenyMatches(url) ==
    \/ \E i \in 1..Len(url) : url[i] = "login"
    \/ url[Len(url)] = "pic.jpg"

\* A pattern of DEFAULT_ARTICLE_URL_PATTERNS is found in the URL.
ArticleMatches(url) ==
    \E i \in 1..Len(url) : url[i] \in {"news", "a-slug-of-thirty-characters-xx"}

\* A filter that looks at the article patterns first.
ArticlePatternsFirst(url) ==
    IF ArticleMatches(url) THEN TRUE
    ELSE FALSE

\* _is_article_url: the deny patterns first, then the article patterns.
_is_article_url(url) ==
    IF DenyMatches(url) THEN FALSE
    ELSE IF ArticleMatches(url) THEN TRUE
    ELSE FALSE

\* ---- the document ----

\* Nodes are numbered in document order; node 0 is the root (body).  A
\* parent of -1 marks a node that has been taken out of the document.
HeurTags == {"article", "div", "nav", "p", "a", "li"}
\* The characters of text directly in a p.
ParagraphLens == {100, 200, 600}

RECURSIVE Ancestors(_, _)
Ancestors(doc, n) ==
    IF n <= 0 THEN {}
    ELSE IF doc[n].parent <= 0 THEN {doc[n].parent}
    ELSE {doc[n].parent} \cup Ancestors(doc, doc[n].parent)

\* Documents as an HTML parser builds them: nodes in document order, text
\* in p only, nothing inside a p, an a or an li.
WellFormed(doc) ==
    \A n \in 1..NumNodes :
        /\ doc[n].parent \in 0..(n - 1)
        /\ doc[n].parent # 0 => doc[doc[n].parent].tag \notin {"p", "a", "li"}
        /\ n > 1 => doc[n].parent \in ({n - 1} \cup Ancestors(doc, n - 1))
        /\ (doc[n].tag = "p") <=> (doc[n].text > 0)

Documents ==
    {doc \in [1..NumNodes -> [tag : HeurTags, parent : 0..(NumNodes - 1),
                              text : {0} \cup ParagraphLens]] : WellFormed(doc)}

InDoc(doc, n) == 0 \in Ancestors(doc, n)

\* The nodes below a in the document.
Below(doc, a) == {n \in 1..NumNodes : a \in Ancestors(doc, n) /\ InDoc(doc, a)}

\* len(' '.join(...)) of the texts of a set of paragraphs.
JoinedLen(doc, ps) ==
    LET RECURSIVE Sum(_)
        Sum(S) == IF S = {} THEN 0
                  ELSE LET x == CHOOSE x \in S : TRUE
                       IN doc[x].text + Sum(S \ {x})
    IN IF ps = {} THEN 0 ELSE Sum(ps) + (Cardinality(ps) - 1)

\* The score of a candidate node (lines 144-154).
Score(doc, n) ==
    LET ps == {m \in Below(doc, n) : doc[m].tag = "p"}
        text_len == JoinedLen(doc, ps)
        p_count == Cardinality(ps)
        link_count == Cardinality({m \in Below(doc, n) : doc[m].tag = "a"})
        nav_penalty == Cardinality({m \in Below(doc, n) : doc[m].tag = "nav"})
        li_count == Cardinality({m \in Below(doc, n) : doc[m].tag = "li"})
        score == text_len + (ParagraphWeight * p_count) - (LinkPenalty * link_count)
                 - (NavPenalty * nav_penalty) - (li_count * ListItemPenalty)
    IN IF text_len < MinParagraphChars THEN score - ShortTextPenalty ELSE score

\* A set of nodes, in document order.
RECURSIVE InOrder(_)
InOrder(S) ==
    IF S = {} THEN <<>>
    ELSE LET m == CHOOSE m \in S : \A x \in S : m <= x
         IN <<m>> \o InOrder(S \ {m})

\* The candidate nodes: "//article", else every block-level container.
CandidateNodes(doc) ==
    LET articles == {n \in 1..NumNodes : InDoc(doc, n) /\ doc[n].tag = "article"}
        blocks == {n \in 1..NumNodes : InDoc(doc, n) /\ doc[n].tag \in {"div", "article"}}
    IN IF articles # {} THEN InOrder(articles) ELSE InOrder(blocks)

\* The loop over the candidates: a node replaces the best one when its
\* score is strictly higher.
RECURSIVE BestNode(_, _, _)
BestNode(doc, nodes, best) ==
    IF nodes = <<>> THEN best
    ELSE IF Score(doc, Head(nodes)) > best.score
         THEN BestNode(doc, Tail(nodes), [node |-> Head(nodes), score |-> Score(doc, Head(nodes))])
         ELSE BestNode(doc, Tail(nodes), best)

\* "//p[not(ancestor::nav) and not(ancestor::aside)]".
FallbackParagraphs(doc) ==
    {n \in 1..NumNodes :
        /\ InDoc(doc, n)
        /\ doc[n].tag = "p"
        /\ \A a \in Ancestors(doc, n) : a > 0 => doc[a].tag # "nav"}

\* _extract_body_html on the tree doc: the node serialized (-1 for the
\* wrapper div the fallback builds, -2 for None), the best score, the nodes
\* of the fragment, and the tree afterwards.  wrapper.append(p.root) takes
\* each paragraph out of the tree of the response.
_extract_body_html(doc) ==
    LET best == BestNode(doc, CandidateNodes(doc), [node |-> -2, score |-> NegInf])
        paras == FallbackParagraphs(doc)
    IN IF (best.node = -2 \/ best.score < ConfidenceFloor) /\ paras # {}
       THEN [selected |-> -1, score |-> best.score, nodes |-> paras,
             doc |-> [n \in 1..NumNodes |->
                        IF n \in paras THEN [doc[n] EXCEPT !.parent = -1] ELSE doc[n]]]
       ELSE IF best.node = -2
       THEN [selected |-> -2, score |-> best.score, nodes |-> {}, doc |-> doc]
       ELSE [selected |-> best.node, score |-> best.score,
             nodes |-> {best.node} \cup Below(doc, best.node), doc |-> doc]

\* _clean_html, then _core_text_only, of the fragment of a run: the nav
\* subtrees inside the fragment are removed, and the text of the
\* paragraphs left is joined.
CoreTextLen(doc, run) ==
    LET removed == {n \in run.nodes : n # run.selected /\
                        (doc[n].tag = "nav" \/
                         \E a \in Ancestors(doc, n) \cap (run.nodes \ {run.selected}) :
                            a > 0 /\ doc[a].tag = "nav")}
    IN JoinedLen(doc, {n \in run.nodes \ removed : doc[n].tag = "p"})

NoHeurOutput == [admitted |-> FALSE, items |-> <<>>]

HeurIdle ==
    /\ hz_url = <<"about">>
    /\ hz_title = "absent"
    /\ hz_doc = [n \in 1..NumNodes |-> [tag |-> "div", parent |-> 0, text |-> 0]]
    /\ hz_runs = <<>>
    /\ hz_out = NoHeurOutput
    /\ hz_pc = "idle"

\* A response arrives at the parser.
HeurInit ==
    /\ hz_url \in HeurUrls
    /\ hz_title \in {"absent", "text"}
    /\ hz_doc \in Documents
    /\ hz_runs = <<>>
    /\ hz_out = NoHeurOutput
    /\ hz_pc = "start"

\* GenericAutoParser.parse_item.
heur_parse_item ==
    /\ hz_pc = "start"
    /\ hz_runs = <<>>
    /\ hz_pc' = "done"
    /\ IF ~_is_article_url(hz_url)
       THEN /\ hz_out' = [admitted |-> FALSE, items |-> <<>>]
            /\ UNCHANGED <<hz_doc, hz_runs>>
       ELSE LET run == _extract_body_html(hz_doc)
                core == CoreTextLen(run.doc, run)
            IN /\ hz_doc' = run.doc
               /\ hz_runs' = <<[selected |-> run.selected, score |-> run.score,
                                nodes |-> run.nodes]>>
               /\ hz_out' =
                    IF hz_title = "absent" \/ run.selected = -2 THEN
                        [admitted |-> TRUE, items |-> <<>>]
                    ELSE IF core < min_body_chars THEN
                        [admitted |-> TRUE, items |-> <<>>]
                    ELSE [admitted |-> TRUE,
                          items |-> <<[title |-> hz_title, core_text_len |-> core]>>]
    /\ UNCHANGED <<hz_url, hz_title>>
    /\ HeurFrame

\* One more run of _extract_body_html on the same response.
body_selection_again ==
    /\ hz_pc = "done"
    /\ Len(hz_runs) \in 1..(MaxRuns - 1)
    /\ LET run == _extract_body_html(hz_doc)
       IN /\ hz_doc' = run.doc
          /\ hz_runs' = Append(hz_runs, [selected |-> run.selected, score |-> run.score,
                                         nodes |-> run.nodes])
    /\ UNCHANGED <<hz_url, hz_title, hz_out, hz_pc>>
    /\ HeurFrame

HeurNext == heur_parse_item \/ body_selection_again

\* C26: parse_item admits a URL exactly when no deny pattern and some
\* article pattern matches it, and a URL not admitted yields no item.
C26_UrlAdmission ==
    hz_pc = "done" =>
        /\ hz_out.admitted <=> (~DenyMatches(hz_url) /\ ArticleMatches(hz_url))
        /\ ~hz_out.admitted => hz_out.items = <<>>

\* A URL a deny and an article pattern both match, on a page with a title
\* and an article of 600 characters, has yielded nothing.
C26_Witness ==
    /\ hz_pc = "done"
    /\ DenyMatches(hz_url)
    /\ ArticleMatches(hz_url)
    /\ hz_title = "text"
    /\ \E n \in 1..NumNodes : hz_doc[n].tag = "article" /\ Score(hz_doc, n) >= ConfidenceFloor
    /\ hz_out.items = <<>>

\* C27: every run of the body selection on a response selects the same
\* node, with the same score and the same fragment.
C27_SelectionIdempotent ==
    \A i, j \in 1..Len(hz_runs) : hz_runs[i] = hz_runs[j]

\* The score the description of the scorer gives a node of the tree doc.
StatedScore(doc, n) ==
    LET Count(tag) == Cardinality({m \in Below(doc, n) : doc[m].tag = tag})
        paragraph_text == JoinedLen(doc, {m \in Below(doc, n) : doc[m].tag = "p"})
    IN paragraph_text + 100 * Count("p") - 50 * Count("a") - 150 * Count("nav")
       - 10 * Count("li") - (IF paragraph_text < 150 THEN 1000 ELSE 0)

\* C34: every run of the body selection on a tree with candidates returns
\* the first candidate of maximum score, with that score, when the score
\* is at least 500, and otherwise the container made of every paragraph
\* not under a nav.
C34_MaxScoreOrFallback ==
    [][(Len(hz_runs') = Len(hz_runs) + 1 /\ CandidateNodes(hz_doc) # <<>>) =>
        LET run == hz_runs'[Len(hz_runs')]
            cands == CandidateNodes(hz_doc)
            top == CHOOSE i \in 1..Len(cands) :
                     /\ \A j \in 1..Len(cands) :
                           StatedScore(hz_doc, cands[j]) <= StatedScore(hz_doc, cands[i])
                     /\ \A j \in 1..(i - 1) :
                           StatedScore(hz_doc, cands[j]) < StatedScore(hz_doc, cands[i])
        IN IF StatedScore(hz_doc, cands[top]) >= 500
           THEN /\ run.selected = cands[top]
                /\ run.score = StatedScore(hz_doc, cands[top])
           ELSE /\ run.selected = -1
                /\ run.nodes = FallbackParagraphs(hz_doc)]_vars

\* C28: no step changes the parsed tree of the response.
C28_PageNotMutated == [][hz_doc' = hz_doc]_vars

---------------------------------------------------------------------------
(* Site identifier derivation                                              *)

\* A network location has 1..MaxLabels labels.
MaxLabels == 3

\* The labels of a host name.
HostLabels == {"www", "a", "b"}
\* What follows the last label: nothing, a port (":8"), or the characters
\* "_8" as part of the label.
HostSuffixes == {"none", "port", "underscore"}

HostNames == [labels : SeqsUpTo(HostLabels, MaxLabels) \ {<<>>}, suffix : HostSuffixes]

\* The crawler: urlparse(response.url).netloc.replace('www.', '').
CrawlerSiteId(host) == [labels |-> SiteOf(host.labels), suffix |-> host.suffix]

\* extract_domain of the deduplication stage: a leading "www." is cut off,
\* then ':' and '/' become '_'.
DedupSiteId(host) ==
    [labels |-> IF Len(host.labels) > 1 /\ Head(host.labels) = "www"
                THEN Tail(host.labels) ELSE host.labels,
     suffix |-> IF host.suffix = "port" THEN "underscore" ELSE host.suffix]

SiteIdle ==
    /\ sid_hosts = <<>>
    /\ sid_crawler = <<>>
    /\ sid_dedup = <<>>

SiteInit ==
    /\ sid_hosts \in HostNames \X HostNames
    /\ sid_crawler = <<>>
    /\ sid_dedup = <<>>

\* The crawler derives the site of a response of each host.
crawler_site_ids ==
    /\ sid_hosts # <<>>
    /\ sid_crawler = <<>>
    /\ sid_crawler' = <<CrawlerSiteId(sid_hosts[1]), CrawlerSiteId(sid_hosts[2])>>
    /\ UNCHANGED <<sid_hosts, sid_dedup>>
    /\ SiteFrame

\* The deduplication stage derives the site of a record of each host.
dedup_site_ids ==
    /\ sid_hosts # <<>>
    /\ sid_dedup = <<>>
    /\ sid_dedup' = <<DedupSiteId(sid_hosts[1]), DedupSiteId(sid_hosts[2])>>
    /\ UNCHANGED <<sid_hosts, sid_crawler>>
    /\ SiteFrame

SiteNext == crawler_site_ids \/ dedup_site_ids

\* A host without its leading "www." label.
WithoutLeadingWww(host) ==
    [labels |-> IF Len(host.labels) > 1 /\ Head(host.labels) = "www"
                THEN Tail(host.labels) ELSE host.labels,
     suffix |-> host.suffix]

DistinctHosts == WithoutLeadingWww(sid_hosts[1]) # WithoutLeadingWww(sid_hosts[2])

\* C32: two hosts that differ in more than a leading "www." never get the
\* same site identifier, in the crawler and in the deduplication stage.
C32_SiteIdInjective ==
    /\ (sid_crawler # <<>> /\ DistinctHosts) => sid_crawler[1] # sid_crawler[2]
    /\ (sid_dedup # <<>> /\ DistinctHosts) => sid_dedup[1] # sid_dedup[2]

---------------------------------------------------------------------------
(* One output file per site: JSONExportPipeline._sanitize_domain           *)

\* A site identifier has 1..MaxSiteIdLen characters.
MaxSiteIdLen == 4
\* The length _sanitize_domain cuts a name to (200), scaled down.
NameLimit == 3
\* Batches written in a run.
MaxBatches == 2

\* The characters of a site identifier.
SiteIdChars == {"a", ".", "_"}

SiteIds == SeqsUpTo(SiteIdChars, MaxSiteIdLen) \ {<<>>}

\* _sanitize_domain: '.', '/' and '\' become '_', and the name is cut.
_sanitize_domain(domain) ==
    LET sanitized == [i \in 1..Len(domain) |-> IF domain[i] = "." THEN "_" ELSE domain[i]]
    IN SubSeq(sanitized, 1, IF Len(sanitized) < NameLimit THEN Len(sanitized) ELSE NameLimit)

SanIdle ==
    /\ sz_sites = <<>>
    /\ sz_written = <<>>

SanInit ==
    /\ sz_sites \in SiteIds \X SiteIds
    /\ sz_written = <<>>

\* _flush_buffer(domain) for the site k: its batch goes to the file
\* export_dir / (_sanitize_domain(domain) + ".jsonl"), opened in mode 'a'.
sz_flush_buffer(k) ==
    /\ sz_sites # <<>>
    /\ Len(sz_written) < MaxBatches
    /\ sz_written' = Append(sz_written, [file |-> _sanitize_domain(sz_sites[k]),
                                         site |-> sz_sites[k]])
    /\ UNCHANGED sz_sites
    /\ SanFrame

SanNext == \E k \in 1..2 : sz_flush_buffer(k)

\* C33: the batches written to one file are all of one site, and the
\* batches of one site are all in one file.
C33_OneFilePerSite ==
    \A i, j \in 1..Len(sz_written) :
        (sz_written[i].file = sz_written[j].file) <=> (sz_written[i].site = sz_written[j].site)

---------------------------------------------------------------------------
(* Pagination depth: ArticleSpider.process_pagination_request              *)

\* max_pages of the site is 1..MaxMaxPages.
MaxMaxPages == 2
\* Pagination requests in a crawl.
MaxPagRequests == 4

\* The listing pages of the site the pagination links point to.  The
\* depth_key of a request is "<domain>:<request.url>".
PagUrls == {"/page/1", "/page/2", "/page/3"}

PagIdle ==
    /\ pg_max_pages = 0
    /\ pagination_depth = [u \in PagUrls |-> 0]
    /\ pg_requests = <<>>

\* A crawl of a site whose configuration sets max_pages.
PagInit ==
    /\ pg_max_pages \in 1..MaxMaxPages
    /\ pagination_depth = [u \in PagUrls |-> 0]
    /\ pg_requests = <<>>

\* process_pagination_request for a link to url, of a configured site.
process_pagination_request(url) ==
    /\ pg_max_pages > 0
    /\ Len(pg_requests) < MaxPagRequests
    /\ LET current_depth == pagination_depth[url]
       IN IF current_depth >= pg_max_pages
          THEN /\ pg_requests' = Append(pg_requests, [url |-> url, outcome |-> "IgnoreRequest"])
               /\ UNCHANGED pagination_depth
          ELSE /\ pagination_depth' = [pagination_depth EXCEPT ![url] = current_depth + 1]
               /\ pg_requests' = Append(pg_requests, [url |-> url, outcome |-> "request"])
    /\ UNCHANGED pg_max_pages
    /\ PagFrame

PagNext == \E url \in PagUrls : process_pagination_request(url)

\* C35: at most max_pages pagination requests of the site pass, and every
\* request after that many have passed is rejected.
C35_PaginationLimited ==
    LET passed(k) == Cardinality({i \in 1..k : pg_requests[i].outcome = "request"})
    IN /\ passed(Len(pg_requests)) <= pg_max_pages
       /\ \A k \in 1..Len(pg_requests) :
             passed(k - 1) >= pg_max_pages => pg_requests[k].outcome = "IgnoreRequest"

---------------------------------------------------------------------------
(* The post-processor: post_process/processor.py                           *)

\* Records in the input file.
MaxPpInput == 2
\* --chunk-size is 1..MaxPpChunkSize.
MaxPpChunkSize == 2
\* --min-text-length (200 by default), scaled down.
MinTextLength == 3

\* A record of the input: not a dict at all, or a dict with the verdict of
\* should_filter_record, a title (none or empty, a string of one
\* character, or a list, which has no strip()), the length of its body and
\* the length of what trafilatura makes of the body (0: nothing).
PpRecords ==
    {[kind |-> "not_dict", filtered |-> FALSE, title |-> "empty", body |-> 0, cleaned |-> 0]}
    \cup [kind : {"dict"}, filtered : BOOLEAN, title : {"empty", "text", "list"},
          body : {0, 1, 3}, cleaned : {0, 1}]

None == [reason |-> "None"]

\* A variant of _process_record that returns nothing at all for a text
\* under the minimum.
drop_short_record(record, config) ==
    IF record.kind # "dict" THEN <<None, [reason |-> "invalid_record"]>>
    ELSE IF record.filtered THEN <<None, [reason |-> "filtered"]>>
    ELSE IF record.title = "list" THEN <<[reason |-> "raised"], [reason |-> "raised"]>>
    ELSE LET body == IF config.html /\ record.body > 0 /\ record.cleaned > 0
                     THEN record.cleaned ELSE record.body
             title == IF record.title = "text" THEN 1 ELSE 0
             text == IF title > 0 /\ body > 0 THEN title + 1 + body ELSE title + body
         IN IF title = 0 /\ body = 0 THEN <<None, [reason |-> "empty_content"]>>
            ELSE IF text < MinTextLength THEN <<None, None>>
            ELSE <<[reason |-> "ok"], None>>

\* _process_record: the pair (ok_record, fail_record); a pair of "raised"
\* stands for the AttributeError of (title or '').strip() on a list.
_process_record(record, config) ==
    IF record.kind # "dict" THEN <<None, [reason |-> "invalid_record"]>>
    ELSE IF record.filtered THEN <<None, [reason |-> "filtered"]>>
    ELSE IF record.title = "list" THEN <<[reason |-> "raised"], [reason |-> "raised"]>>
    ELSE LET body == IF config.html /\ record.body > 0 /\ record.cleaned > 0
                     THEN record.cleaned ELSE record.body
             title == IF record.title = "text" THEN 1 ELSE 0
             text == IF title > 0 /\ body > 0 THEN title + 1 + body ELSE title + body
         IN IF title = 0 /\ body = 0 THEN <<None, [reason |-> "empty_content"]>>
            ELSE IF text < MinTextLength THEN <<None, [reason |-> "too_short"]>>
            ELSE <<[reason |-> "ok"], None>>

\* _process_chunk: the pairs returned for the records of the chunk, the ok
\* and the fail list; raised when a record made _process_record raise.
_process_chunk(chunk, config) ==
    LET returns == [i \in 1..Len(chunk) |-> _process_record(pp_input[chunk[i]], config)]
        took_ok(pair) == pair[1] # None
        took_fail(pair) == pair[1] = None /\ pair[2] # None
    IN IF \E i \in 1..Len(chunk) : returns[i][1].reason = "raised"
       THEN [raised |-> TRUE, size |-> Len(chunk), returns |-> <<>>, ok |-> <<>>, fail |-> <<>>]
       ELSE [raised |-> FALSE, size |-> Len(chunk), returns |-> returns,
             ok |-> SelectSeq(returns, took_ok), fail |-> SelectSeq(returns, took_fail)]

PpIdle ==
    /\ pp_input = <<>>
    /\ pp_config = [html |-> FALSE, chunk_size |-> 1]
    /\ pp_chunks = <<>>
    /\ pp_pending = {}
    /\ pp_results = <<>>
    /\ pp_written = 0
    /\ pp_failed_count = 0
    /\ pp_pc = "idle"

\* main, up to the loading of the chunks.
PpInit ==
    /\ \E n \in 0..MaxPpInput : pp_input \in [1..n -> PpRecords]
    /\ pp_config \in [html : BOOLEAN, chunk_size : 1..MaxPpChunkSize]
    /\ pp_chunks = <<>>
    /\ pp_pending = {}
    /\ pp_results = <<>>
    /\ pp_written = 0
    /\ pp_failed_count = 0
    /\ pp_pc = "start"

\* loader.iter_chunks and the submission of every chunk.
pp_load_chunks ==
    /\ pp_pc = "start"
    /\ pp_chunks' = SplitChunks([i \in 1..Len(pp_input) |-> i], pp_config.chunk_size)
    /\ pp_pending' = 1..Len(pp_chunks')
    /\ pp_pc' = "processing"
    /\ UNCHANGED <<pp_input, pp_config, pp_results, pp_written, pp_failed_count>>
    /\ PpFrame

\* One future completes: its records are written and counted, or its
\* exception is printed.
pp_chunk_completed(c) ==
    /\ pp_pc = "processing"
    /\ c \in pp_pending
    /\ LET results == _process_chunk(pp_chunks[c], pp_config)
       IN /\ pp_results' = Append(pp_results, results)
          /\ pp_written' = pp_written + Len(results.ok)
          /\ pp_failed_count' = pp_failed_count + Len(results.fail)
    /\ pp_pending' = pp_pending \ {c}
    /\ UNCHANGED <<pp_input, pp_config, pp_chunks, pp_pc>>
    /\ PpFrame

\* The final summary.
pp_finish ==
    /\ pp_pc = "processing"
    /\ pp_pending = {}
    /\ pp_pc' = "done"
    /\ UNCHANGED <<pp_input, pp_config, pp_chunks, pp_pending, pp_results,
                   pp_written, pp_failed_count>>
    /\ PpFrame

PpNext ==
    \/ pp_load_chunks
    \/ \E c \in pp_pending : pp_chunk_completed(c)
    \/ pp_finish

NoChunkRaised == \A k \in 1..Len(pp_results) : ~pp_results[k].raised

\* C36: every pair _process_record returns has exactly one member that is
\* not None; the ok and fail records of a chunk add up to its length; and
\* at the end of a run in which no chunk raised, the records written and
\* the records reported as failed add up to the records loaded.
C36_EveryRecordAccounted ==
    /\ \A k \in 1..Len(pp_results) : ~pp_results[k].raised =>
          /\ \A i \in 1..Len(pp_results[k].returns) :
                (pp_results[k].returns[i][1] = None) # (pp_results[k].returns[i][2] = None)
          /\ Len(pp_results[k].ok) + Len(pp_results[k].fail) = pp_results[k].size
    /\ (pp_pc = "done" /\ NoChunkRaised) =>
          pp_written + pp_failed_count = Len(pp_input)

\* A run of two chunks is over, none raised, one record was written and
\* one was too short.
C36_Witness ==
    /\ pp_pc = "done"
    /\ NoChunkRaised
    /\ Len(pp_results) = 2
    /\ pp_written = 1
    /\ pp_failed_count = 1
    /\ \E k \in 1..2 : pp_results[k].fail = <<<<None, [reason |-> "too_short"]>>>>

---------------------------------------------------------------------------
(* Specifications *)

\* A run of the writer; no request and no deduplication run is followed.
InitWriter == WriterInit /\ RetryIdle /\ DedupIdle /\ HandlesInit /\ RotateInit /\ PaceInit /\ ProxyIdle /\ ExtractIdle /\ HeurIdle /\ PairIdle /\ SeedIdle /\ SiteIdle /\ SanIdle /\ PagIdle /\ PpIdle

SpecWriter == InitWriter /\ [][WriterNext]_vars

\* A run of the writer before any shutdown, in which time goes on and the
\* flusher thread is scheduled.
WriterLiveNext ==
    \/ open_spider
    \/ Tick
    \/ TickLate
    \/ \E d \in Domains, size \in 1..MaxLineSize : process_item(d, size)
    \/ flusher_get
    \/ flusher_timeout
    \/ check_time_based_flushes
    \/ flusher_drain
    \/ flusher_write
    \/ flusher_restore

SpecWriterLive ==
    /\ InitWriter
    /\ [][WriterLiveNext]_vars
    /\ WF_vars(Tick)
    /\ WF_vars(TickLate)
    /\ WF_vars(flusher_get)
    /\ WF_vars(flusher_timeout)
    /\ WF_vars(check_time_based_flushes)
    /\ WF_vars(flusher_drain)
    /\ WF_vars(flusher_write)
    /\ WF_vars(flusher_restore)

\* One request through the resilience layer.
InitRetry == RetryInit /\ WriterInit /\ DedupIdle /\ HandlesInit /\ RotateInit /\ PaceInit /\ ProxyIdle /\ ExtractIdle /\ HeurIdle /\ PairIdle /\ SeedIdle /\ SiteIdle /\ SanIdle /\ PagIdle /\ PpIdle

SpecRetry == InitRetry /\ [][RetryNext]_vars

\* One request through the resilience layer and, when it is pushed to the
\* Redis key, through the spider again.
RequeueNext ==
    \/ process_request
    \/ \E status \in Statuses, body \in Bodies : process_response(status, body)
    \/ \E exc \in Exceptions : process_exception(exc)
    \/ next_requests

SpecRequeue == InitRetry /\ [][RequeueNext]_vars

\* One run of the deduplication stage.
InitDedup == DedupInit /\ WriterInit /\ RetryIdle /\ HandlesInit /\ RotateInit /\ PaceInit /\ ProxyIdle /\ ExtractIdle /\ HeurIdle /\ PairIdle /\ SeedIdle /\ SiteIdle /\ SanIdle /\ PagIdle /\ PpIdle

SpecDedup == InitDedup /\ [][DedupNext]_vars

\* The writer with its at-exit handler.
EmergencyNext ==
    \/ open_spider
    \/ Tick
    \/ \E d \in Domains, size \in 1..MaxLineSize : process_item(d, size)
    \/ flusher_exit
    \/ flusher_get
    \/ flusher_timeout
    \/ check_time_based_flushes
    \/ flusher_drain
    \/ flusher_write
    \/ flusher_restore
    \/ close_spider
    \/ close_join
    \/ close_flush
    \/ close_flushed
    \/ close_handlers
    \/ emergency_start
    \/ emergency_flush
    \/ emergency_close

SpecEmergency == InitWriter /\ [][EmergencyNext]_vars

\* Flushes over many sites.
InitHandles == HandlesInit /\ WriterInit /\ RetryIdle /\ DedupIdle /\ RotateInit /\ PaceInit /\ ProxyIdle /\ ExtractIdle /\ HeurIdle /\ PairIdle /\ SeedIdle /\ SiteIdle /\ SanIdle /\ PagIdle /\ PpIdle

SpecHandles == InitHandles /\ [][HandlesNext]_vars

\* Per-site pacing.
SpecPacing == InitWriter /\ [][PaceNext]_vars

\* Proxy selection.
InitProxy == ProxyInit /\ WriterInit /\ RetryIdle /\ DedupIdle /\ HandlesInit /\ RotateInit /\ PaceInit /\ ExtractIdle /\ HeurIdle /\ PairIdle /\ SeedIdle /\ SiteIdle /\ SanIdle /\ PagIdle /\ PpIdle

SpecProxy == InitProxy /\ [][ProxyNext]_vars

\* The extraction dispatcher.
InitExtract == ExtractInit /\ WriterInit /\ RetryIdle /\ DedupIdle /\ HandlesInit /\ RotateInit /\ PaceInit /\ ProxyIdle /\ HeurIdle /\ PairIdle /\ SeedIdle /\ SiteIdle /\ SanIdle /\ PagIdle /\ PpIdle

SpecExtract == InitExtract /\ [][ExtractNext]_vars

\* The deduplication stage with a seed set.
InitSeeded == SeededInit /\ WriterInit /\ RetryIdle /\ HandlesInit /\ RotateInit /\ PaceInit /\ ProxyIdle /\ ExtractIdle /\ HeurIdle /\ PairIdle /\ SiteIdle /\ SanIdle /\ PagIdle /\ PpIdle

SpecSeeded == InitSeeded /\ [][DedupNext]_vars

\* The two modes of the deduplication stage, side by side.
InitPair == PairInit /\ WriterInit /\ RetryIdle /\ HandlesInit /\ RotateInit /\ PaceInit /\ ProxyIdle /\ ExtractIdle /\ HeurIdle /\ SeedIdle /\ SiteIdle /\ SanIdle /\ PagIdle /\ PpIdle

SpecPair == InitPair /\ [][PairNext]_vars

\* Site identifier derivation.
InitSite == SiteInit /\ WriterInit /\ RetryIdle /\ DedupIdle /\ HandlesInit /\ RotateInit /\ PaceInit /\ ProxyIdle /\ ExtractIdle /\ HeurIdle /\ PairIdle /\ SeedIdle /\ SanIdle /\ PagIdle /\ PpIdle

SpecSite == InitSite /\ [][SiteNext]_vars

\* The output files by site.
InitSan == SanInit /\ WriterInit /\ RetryIdle /\ DedupIdle /\ HandlesInit /\ RotateInit /\ PaceInit /\ ProxyIdle /\ ExtractIdle /\ HeurIdle /\ PairIdle /\ SeedIdle /\ SiteIdle /\ PagIdle /\ PpIdle

SpecSan == InitSan /\ [][SanNext]_vars

\* Pagination.
InitPag == PagInit /\ WriterInit /\ RetryIdle /\ DedupIdle /\ HandlesInit /\ RotateInit /\ PaceInit /\ ProxyIdle /\ ExtractIdle /\ HeurIdle /\ PairIdle /\ SeedIdle /\ SiteIdle /\ SanIdle /\ PpIdle

SpecPag == InitPag /\ [][PagNext]_vars

\* The post-processor.
InitPp == PpInit /\ WriterInit /\ RetryIdle /\ DedupIdle /\ HandlesInit /\ RotateInit /\ PaceInit /\ ProxyIdle /\ ExtractIdle /\ HeurIdle /\ PairIdle /\ SeedIdle /\ SiteIdle /\ SanIdle /\ PagIdle

SpecPp == InitPp /\ [][PpNext]_vars

\* The heuristic scorer.
InitHeur == HeurInit /\ WriterInit /\ RetryIdle /\ DedupIdle /\ HandlesInit /\ RotateInit /\ PaceInit /\ ProxyIdle /\ ExtractIdle /\ PairIdle /\ SeedIdle /\ SiteIdle /\ SanIdle /\ PagIdle /\ PpIdle

SpecHeur == InitHeur /\ [][HeurNext]_vars

\* The rotation variant.
InitRotate == RotateInit /\ WriterInit /\ RetryIdle /\ DedupIdle /\ HandlesInit /\ PaceInit /\ ProxyIdle /\ ExtractIdle /\ HeurIdle /\ PairIdle /\ SeedIdle /\ SiteIdle /\ SanIdle /\ PagIdle /\ PpIdle

SpecRotate == InitRotate /\ [][RotateNext]_vars

=============================================================================
